---- MODULE Spec2Model ----
(***************************************************************************)
(* The message dispatcher of app/queueing_extended.py: per-channel queues  *)
(* with worker pools, the debounce coalescer, the orchestrator pool with   *)
(* its busy/idle status broadcast, and the sequential memory-writer lane.  *)
(*                                                                         *)
(* The program is a set of asyncio tasks on one event loop.  A task runs   *)
(* without interruption from one suspension point (an await that really    *)
(* suspends) to the next, so every action below is one such run.           *)
(***************************************************************************)
EXTENDS Integers, Sequences, FiniteSets, TLC

(***************************************************************************)
(* Bounds of the model.                                                    *)
(***************************************************************************)
\* asyncio.Queue(maxsize=100) in the source; scaled down so that a full
\* queue (backpressure) is reached within the bounds on the number of jobs.
maxsize == 2
\* number of enqueue_memory_job calls explored
MaxMemJobs == 4
\* number of enqueue_message calls explored
MaxMessages == 4
\* largest workers_per_channel passed to start_channel_workers
MaxWorkersPerChannel == 2
\* number of enqueue_orchestrator_job calls explored
MaxOrchJobs == 3
\* largest num_workers passed to start_orchestrator_worker
MaxNumWorkers == 2
\* number of debounced_enqueue_message calls explored
MaxSubmits == 3
\* last tick at which a producer submits
MaxTime == 1
\* last tick (of 0.1 s) at which the producer of the timing scenario submits
ScenarioMaxTime == 8
\* number of jobs offered, over all queues, when the three lanes run together
MaxLaneJobs == 3
\* messages offered, directly or debounced, in the bursts under backpressure
MaxBurstMessages == 4

VARIABLES
    memory_queue,       \* the asyncio.Queue of the memory lane
    memory_worker,      \* the task start_memory_worker creates: [pc, job]
    memNext,            \* number of enqueue_memory_job calls made so far
    memEnqLog,          \* history: jobs in the order their put completed
    memInvLog,          \* history: jobs in the order memory_func was invoked
    memFinLog,          \* history: <<job, outcome>> in the order memory_func ended
    message_queues,     \* channel id -> asyncio.Queue; an entry exists once created
    queuesCreated,      \* history: channel id -> number of Queue objects made for it
    chan_started,       \* start_channel_workers was called (the monitor task exists)
    workers_per_channel, \* the argument of start_channel_workers, 0 before the call
    monitored_channels, \* the monitor task's local set
    channel_workers,    \* channel id -> the channel_worker tasks spawned: [pc, job]
    msgNext,            \* number of messages producers have handed over so far
    enqLog,             \* history: channel id -> the puts completed on its queue
    deqLog,             \* history: channel id -> jobs in the order queue.get returned them
    orchestrator_queue, \* the global asyncio.Queue of orchestrator jobs
    orchestrator_workers, \* the orchestrator_worker tasks: [pc, job, is_busy]
    num_workers,        \* the argument of start_orchestrator_worker, 0 before the call
    active_orchestrator_workers, \* _active_orchestrator_workers
    status_update_lock, \* _status_update_lock: [holder, waiters]; holder 0 is free
    orchNext,           \* number of enqueue_orchestrator_job calls made so far
    statusLog,          \* history: the calls of the status sink, in order
    orchEnqLog,         \* history: orchestrator jobs in the order their put completed
    orchDeqLog,         \* history: orchestrator jobs in the order get() returned them
    orchInvLog,         \* history: jobs in the order orchestrator_func was invoked
    sinkRaised,         \* history: the updates (1 before, 2 after a job) whose sink call raised
    now,                \* the event loop's clock, in ticks
    accumulated_messages, \* _accumulated_messages: debounce key -> list of entries
    debounce_timers,    \* _debounce_timers: debounce key -> id of a delayed_process task
    tasks,              \* the delayed_process tasks neither ended nor cancelled
    taskNext,           \* number of delayed_process tasks created so far
    submitLog,          \* history: the debounced_enqueue_message calls, in order
    cancelledAt         \* history: where the timers cancelled so far were suspended

memVars == <<memory_queue, memory_worker, memNext, memEnqLog, memInvLog, memFinLog>>
chanVars == <<message_queues, queuesCreated, chan_started, workers_per_channel, monitored_channels,
              channel_workers,
              msgNext, enqLog, deqLog>>
orchVars == <<orchestrator_queue, orchestrator_workers, num_workers,
              active_orchestrator_workers,
              status_update_lock, orchNext, statusLog,
              orchEnqLog, orchDeqLog, orchInvLog, sinkRaised>>
debVars == <<now, accumulated_messages, debounce_timers, tasks, taskNext, submitLog,
            cancelledAt>>

vars == <<memVars, chanVars, orchVars, debVars>>

(***************************************************************************)
(* asyncio.Queue: a FIFO of items, the callers suspended in put() because  *)
(* the queue is full, and the count of unfinished tasks (put increments    *)
(* it, task_done decrements it).                                           *)
(***************************************************************************)
NewQueue == [items |-> <<>>, putters |-> {}, unfinished |-> 0]

\* a mutant of QueueFull: the queue has no capacity limit
QueueFullNever(q) == FALSE

\* full(): maxsize items are in the queue
QueueFull(q) == Len(q.items) >= maxsize

\* put_nowait: append the item
QueuePutNowait(q, item) ==
    [q EXCEPT !.items = Append(@, item), !.unfinished = @ + 1]

\* put() on a full queue: the caller suspends until a slot is free
QueueSuspendPut(q, putter) == [q EXCEPT !.putters = @ \cup {putter}]

\* a mutant of QueueGetItem: the queue hands out its newest item
QueueGetNewest(q) == q.items[Len(q.items)]

\* get_nowait: the item handed to the caller is the oldest one
QueueGetItem(q) == Head(q.items)

\* the queue after get_nowait took QueueGetItem(q)
QueueAfterGet(q) ==
    LET it == QueueGetItem(q)
        i == CHOOSE k \in 1..Len(q.items) : q.items[k] = it
    IN [q EXCEPT !.items = SubSeq(@, 1, i - 1) \o SubSeq(@, i + 1, Len(@))]

QueueTaskDone(q) == [q EXCEPT !.unfinished = @ - 1]

IsPrefix(s, t) == Len(s) <= Len(t) /\ SubSeq(t, 1, Len(s)) = s

Outcomes == {"returned", "raised"}

(***************************************************************************)
(* Identifiers and messages.  A message is the dict the producers hand     *)
(* over; id stands for the identity of the message object.                 *)
(***************************************************************************)
ChannelIds == {"a", "a:b", "C1"}
UserIds == {"c", "b:c", "U1"}

\* a text is the sequence of its characters
Whitespace == {" ", "\n", "\t"}

\* the job enqueue_message puts on the queue: {"message": message}
JobOf(message) == [message |-> message]

(***************************************************************************)
(* The state after the module is imported: line 7 to 21 of the source.     *)
(***************************************************************************)
InitMem ==
    /\ memory_queue = NewQueue
    /\ memory_worker = [pc |-> "none", job |-> 0]
    /\ memNext = 0
    /\ memEnqLog = <<>>
    /\ memInvLog = <<>>
    /\ memFinLog = <<>>

InitChan ==
    /\ message_queues = <<>>
    /\ queuesCreated = [ch \in ChannelIds |-> 0]
    /\ chan_started = FALSE
    /\ workers_per_channel = 0
    /\ monitored_channels = {}
    /\ channel_workers = [ch \in ChannelIds |-> <<>>]
    /\ msgNext = 0
    /\ enqLog = [ch \in ChannelIds |-> <<>>]
    /\ deqLog = [ch \in ChannelIds |-> <<>>]

InitOrch ==
    /\ orchestrator_queue = NewQueue
    /\ orchestrator_workers = <<>>
    /\ num_workers = 0
    /\ active_orchestrator_workers = 0
    /\ status_update_lock = [holder |-> 0, waiters |-> <<>>]
    /\ orchNext = 0
    /\ statusLog = <<>>
    /\ orchEnqLog = <<>>
    /\ orchDeqLog = <<>>
    /\ orchInvLog = <<>>
    /\ sinkRaised = {}

InitDeb ==
    /\ now = 0
    /\ accumulated_messages = <<>>
    /\ debounce_timers = <<>>
    /\ tasks = <<>>
    /\ taskNext = 0
    /\ submitLog = <<>>
    /\ cancelledAt = {}

Init == InitMem /\ InitChan /\ InitOrch /\ InitDeb

(***************************************************************************)
(* Channel queue registry and channel worker pool.                         *)
(***************************************************************************)
\* a mutant of CreatesQueue: every call makes a new queue for the key
CreatesQueueAlways(mq, channel_id) == TRUE

\* get_or_create_channel_queue: if channel_id not in message_queues
CreatesQueue(mq, channel_id) == channel_id \notin DOMAIN mq

\* get_or_create_channel_queue(channel_id): the registry after the call;
\* message_queues[channel_id] = asyncio.Queue(maxsize=100) when the key is new
GetOrCreateChannelQueue(mq, channel_id) ==
    IF CreatesQueue(mq, channel_id)
    THEN [ch \in DOMAIN mq \cup {channel_id} |->
             IF ch = channel_id THEN NewQueue ELSE mq[ch]]
    ELSE mq

\* the Queue objects made so far, after get_or_create_channel_queue(channel_id)
QueuesCreatedAfter(mq, channel_id) ==
    IF CreatesQueue(mq, channel_id)
    THEN [queuesCreated EXCEPT ![channel_id] = @ + 1]
    ELSE queuesCreated

\* what the history records of a completed put: the job, the time, the caller
\* (kind, key, parts: the ids of the messages the job was made from), whether
\* the caller had been suspended on the full queue, and the number of
\* debounced_enqueue_message calls made before
EnqEntry(job, caller, waited) ==
    [job |-> job, time |-> now, kind |-> caller.kind, key |-> caller.key,
     parts |-> caller.parts, waited |-> waited, nsub |-> Len(submitLog)]

\* whether queue.put of enqueue_message(message) completes without suspending
PutCompletes(message) ==
    LET mq == GetOrCreateChannelQueue(message_queues, message.channel)
    IN ~QueueFull(mq[message.channel])

\* enqueue_message(message), called by `caller`: the queue of the message's
\* channel is looked up or created, and the job is put on it; on a full
\* queue the caller stays suspended in put
EnqueueMessageCall(message, caller) ==
    LET ch == message.channel
        mq == GetOrCreateChannelQueue(message_queues, ch)
        job == JobOf(message)
    IN /\ queuesCreated' = QueuesCreatedAfter(message_queues, ch)
       /\ IF QueueFull(mq[ch])
          THEN /\ message_queues' =
                     [mq EXCEPT ![ch] = QueueSuspendPut(@, [job |-> job, caller |-> caller])]
               /\ UNCHANGED enqLog
          ELSE /\ message_queues' = [mq EXCEPT ![ch] = QueuePutNowait(@, job)]
               /\ enqLog' = [enqLog EXCEPT ![ch] = Append(@, EnqEntry(job, caller, FALSE))]

\* a caller suspended in queue.put gets its slot: put_nowait
PutResumeCall(ch, putter) ==
    /\ message_queues' = [message_queues EXCEPT
           ![ch] = [QueuePutNowait(@, putter.job) EXCEPT !.putters = @ \ {putter}]]
    /\ enqLog' = [enqLog EXCEPT
           ![ch] = Append(@, EnqEntry(putter.job, putter.caller, TRUE))]

\* a producer calling enqueue_message directly; task 0 is no timer task
Producer(id) == [task |-> 0, kind |-> "direct", key |-> "", parts |-> <<id>>]

\* enqueue_message(message) called by a producer
EnqueueMessage(channel_id, user_id, text) ==
    /\ msgNext < MaxMessages
    /\ msgNext' = msgNext + 1
    /\ LET message == [id |-> msgNext + 1, channel |-> channel_id,
                       user |-> user_id, text |-> text]
       IN EnqueueMessageCall(message, Producer(message.id))
    /\ UNCHANGED <<chan_started, workers_per_channel, monitored_channels, channel_workers, deqLog>>
    /\ UNCHANGED <<memVars, orchVars, debVars>>

\* a producer suspended in enqueue_message resumes once a slot is free
ProducerPutResume(ch, putter) ==
    /\ ch \in DOMAIN message_queues
    /\ putter \in message_queues[ch].putters
    /\ putter.caller.task = 0
    /\ ~QueueFull(message_queues[ch])
    /\ PutResumeCall(ch, putter)
    /\ UNCHANGED <<queuesCreated, chan_started, workers_per_channel, monitored_channels, channel_workers, msgNext, deqLog>>
    /\ UNCHANGED <<memVars, orchVars, debVars>>

\* start_channel_workers(app, process_func, workers_per_channel): the
\* monitor_and_spawn_workers task is created, its local set empty
StartChannelWorkers(n) ==
    /\ ~chan_started
    /\ chan_started' = TRUE
    /\ workers_per_channel' = n
    /\ UNCHANGED <<message_queues, queuesCreated, monitored_channels, channel_workers,
                   msgNext, enqLog, deqLog>>
    /\ UNCHANGED <<memVars, orchVars, debVars>>

NewWorkers == [w \in 1..workers_per_channel |-> [pc |-> "get", job |-> 0]]

\* a mutant of MonitorScan: the channel is not added to monitored_channels
MonitorScanNoMark ==
    /\ chan_started
    /\ channel_workers' =
           [ch \in ChannelIds |->
               IF ch \in DOMAIN message_queues
                  /\ Len(channel_workers[ch]) < 2 * workers_per_channel
               THEN channel_workers[ch] \o NewWorkers
               ELSE channel_workers[ch]]
    /\ UNCHANGED <<message_queues, queuesCreated, chan_started, workers_per_channel,
                   monitored_channels, msgNext, enqLog, deqLog>>
    /\ UNCHANGED <<memVars, orchVars, debVars>>

\* a mutant of MonitorScan: the monitor leaves its loop after the first round
\* that spawned workers, so a channel first seen later gets none
MonitorScanOnce ==
    /\ chan_started
    /\ monitored_channels = {}
    /\ channel_workers' =
           [ch \in ChannelIds |->
               IF ch \in DOMAIN message_queues /\ ch \notin monitored_channels
               THEN channel_workers[ch] \o NewWorkers
               ELSE channel_workers[ch]]
    /\ monitored_channels' = monitored_channels \cup DOMAIN message_queues
    /\ UNCHANGED <<message_queues, queuesCreated, chan_started, workers_per_channel,
                   msgNext, enqLog, deqLog>>
    /\ UNCHANGED <<memVars, orchVars, debVars>>

\* a mutant of MonitorScan: the monitor awaits the workers it spawned instead
\* of running them as tasks, so it scans only while no process_func call is
\* in progress
MonitorScanAwaitsWorkers ==
    /\ chan_started
    /\ \A ch \in ChannelIds : \A w \in 1..Len(channel_workers[ch]) :
           channel_workers[ch][w].pc # "run"
    /\ channel_workers' =
           [ch \in ChannelIds |->
               IF ch \in DOMAIN message_queues /\ ch \notin monitored_channels
               THEN channel_workers[ch] \o NewWorkers
               ELSE channel_workers[ch]]
    /\ monitored_channels' = monitored_channels \cup DOMAIN message_queues
    /\ UNCHANGED <<message_queues, queuesCreated, chan_started, workers_per_channel,
                   msgNext, enqLog, deqLog>>
    /\ UNCHANGED <<memVars, orchVars, debVars>>

\* monitor_and_spawn_workers, one round of its loop after the sleep: every
\* channel of the registry not yet in monitored_channels gets
\* workers_per_channel channel_worker tasks and is added to the set
MonitorScan ==
    /\ chan_started
    /\ channel_workers' =
           [ch \in ChannelIds |->
               IF ch \in DOMAIN message_queues /\ ch \notin monitored_channels
               THEN channel_workers[ch] \o NewWorkers
               ELSE channel_workers[ch]]
    /\ monitored_channels' = monitored_channels \cup DOMAIN message_queues
    /\ UNCHANGED <<message_queues, queuesCreated, chan_started, workers_per_channel,
                   msgNext, enqLog, deqLog>>
    /\ UNCHANGED <<memVars, orchVars, debVars>>

\* channel_worker: job = await queue.get(); await process_func(message, client) begins
ChannelWorkerGet(ch, w) ==
    /\ w \in 1..Len(channel_workers[ch])
    /\ channel_workers[ch][w].pc = "get"
    /\ message_queues[ch].items # <<>>
    /\ message_queues' = [message_queues EXCEPT ![ch] = QueueAfterGet(@)]
    /\ channel_workers' = [channel_workers EXCEPT
           ![ch][w] = [pc |-> "run", job |-> QueueGetItem(message_queues[ch])]]
    /\ deqLog' = [deqLog EXCEPT ![ch] = Append(@, QueueGetItem(message_queues[ch]))]
    /\ UNCHANGED <<queuesCreated, chan_started, workers_per_channel, monitored_channels,
                   msgNext, enqLog>>
    /\ UNCHANGED <<memVars, orchVars, debVars>>

\* a mutant of ChannelWorkerDone: a job whose process_func call raised is put
\* back on the queue for another attempt
ChannelWorkerDoneRetry(ch, w, outcome) ==
    /\ w \in 1..Len(channel_workers[ch])
    /\ channel_workers[ch][w].pc = "run"
    /\ message_queues' = [message_queues EXCEPT
           ![ch] = IF outcome = "raised" /\ ~QueueFull(@)
                   THEN QueuePutNowait(QueueTaskDone(@), channel_workers[ch][w].job)
                   ELSE QueueTaskDone(@)]
    /\ channel_workers' = [channel_workers EXCEPT ![ch][w] = [pc |-> "get", job |-> 0]]
    /\ UNCHANGED <<queuesCreated, chan_started, workers_per_channel, monitored_channels,
                   msgNext, enqLog, deqLog>>
    /\ UNCHANGED <<memVars, orchVars, debVars>>

\* channel_worker: process_func returns or raises (the exception is logged);
\* finally queue.task_done(); the loop waits in get() again
ChannelWorkerDone(ch, w, outcome) ==
    /\ w \in 1..Len(channel_workers[ch])
    /\ channel_workers[ch][w].pc = "run"
    /\ message_queues' = [message_queues EXCEPT ![ch] = QueueTaskDone(@)]
    /\ channel_workers' = [channel_workers EXCEPT ![ch][w] = [pc |-> "get", job |-> 0]]
    /\ UNCHANGED <<queuesCreated, chan_started, workers_per_channel, monitored_channels,
                   msgNext, enqLog, deqLog>>
    /\ UNCHANGED <<memVars, orchVars, debVars>>

\* the putters of every queue of the registry, as <<channel, putter>>
AllPutters ==
    UNION {{<<ch, p>> : p \in message_queues[ch].putters} : ch \in DOMAIN message_queues}

\* the channel_worker tasks, as <<channel, index>>
AllChannelWorkers ==
    UNION {{<<ch, w>> : w \in 1..Len(channel_workers[ch])} : ch \in ChannelIds}

NextChanWorkers(workerCounts) ==
    \/ \E cp \in AllPutters : ProducerPutResume(cp[1], cp[2])
    \/ \E n \in workerCounts : StartChannelWorkers(n)
    \/ MonitorScan
    \/ \E cw \in AllChannelWorkers : ChannelWorkerGet(cw[1], cw[2])
    \/ \E cw \in AllChannelWorkers, outcome \in Outcomes :
           ChannelWorkerDone(cw[1], cw[2], outcome)

NextChan ==
    \/ \E ch \in {"a", "a:b"} : EnqueueMessage(ch, "c", <<"b">>)
    \/ NextChanWorkers(1..MaxWorkersPerChannel)

SpecChan == Init /\ [][NextChan]_vars

\* process_func invocations in flight for a channel
ChanInFlight(ch) ==
    Cardinality({w \in 1..Len(channel_workers[ch]) : channel_workers[ch][w].pc = "run"})

\* the jobs of the completed puts of a channel, in order
EnqJobs(ch) == [i \in 1..Len(enqLog[ch]) |-> enqLog[ch][i].job]

\* C2: for every routing key the jobs are dequeued by the channel workers in
\* the order their enqueues completed, whatever worker takes them.
C2_ChannelFifo == \A ch \in ChannelIds : IsPrefix(deqLog[ch], EnqJobs(ch))

\* C2 witness: three jobs of one channel were dequeued, the last while the
\* other worker of the channel was still processing
C2_Witness ==
    \E ch \in ChannelIds :
        /\ Len(deqLog[ch]) = 3
        /\ ChanInFlight(ch) = 2

\* C3: at most workers_per_channel invocations of the processing function
\* are in flight for any single routing key.
C3_AtMostNInFlight == \A ch \in ChannelIds : ChanInFlight(ch) <= workers_per_channel

\* C3 witness: workers_per_channel invocations in flight for a channel while
\* a further job of that channel waits in its queue, after a later scan
C3_Witness ==
    \E ch \in ChannelIds :
        /\ ch \in monitored_channels
        /\ workers_per_channel = MaxWorkersPerChannel
        /\ ChanInFlight(ch) = workers_per_channel
        /\ message_queues[ch].items # <<>>

\* the queue of a key is the object made at the first access
SameInstance(ch) ==
    /\ ch \in DOMAIN message_queues'
    /\ queuesCreated'[ch] = queuesCreated[ch]
    /\ \/ message_queues'[ch].items = message_queues[ch].items
       \/ /\ message_queues[ch].items # <<>>
          /\ message_queues'[ch].items = Tail(message_queues[ch].items)
       \/ /\ Len(message_queues'[ch].items) = Len(message_queues[ch].items) + 1
          /\ IsPrefix(message_queues[ch].items, message_queues'[ch].items)

\* C16: for every routing key exactly one queue object is ever made, at the
\* first access, and every later call returns it; an entry of the registry
\* is never removed and never replaced by another queue object, so the jobs
\* waiting in it change only by a put at the tail or a get at the head.
C16_RegistryIdempotent ==
    /\ [](\A ch \in ChannelIds :
             queuesCreated[ch] = IF ch \in DOMAIN message_queues THEN 1 ELSE 0)
    /\ [][\A ch \in DOMAIN message_queues : SameInstance(ch)]_vars

\* C16 witness: two keys have a queue, and one of them was accessed by three
\* enqueue_message calls, the later ones while jobs were waiting in it
C16_Witness ==
    /\ DOMAIN message_queues = {"a", "a:b"}
    /\ \E ch \in DOMAIN message_queues :
           /\ Len(message_queues[ch].items) = 2
           /\ message_queues[ch].putters # {}
           /\ queuesCreated[ch] = 1

\* the workers of a key are started only by the scan that first sees the key,
\* workers_per_channel of them, and that scan marks every key of the registry
StartedByFirstScan(ch) ==
    Len(channel_workers'[ch]) # Len(channel_workers[ch]) =>
        /\ ch \in DOMAIN message_queues
        /\ ch \notin monitored_channels
        /\ Len(channel_workers[ch]) = 0
        /\ Len(channel_workers'[ch]) = workers_per_channel
        /\ monitored_channels' = DOMAIN message_queues

\* C17: a routing key has workers_per_channel workers once a scan has seen it
\* in the registry and none before; the workers of a key are started by one
\* scan only, and a key already supervised stays supervised and gets no
\* further worker.
C17_SupervisedOnce ==
    /\ [](/\ monitored_channels \subseteq DOMAIN message_queues
          /\ \A ch \in ChannelIds :
                Len(channel_workers[ch]) =
                    IF ch \in monitored_channels THEN workers_per_channel ELSE 0)
    /\ [][/\ monitored_channels \subseteq monitored_channels'
          /\ \A ch \in ChannelIds : StartedByFirstScan(ch)]_vars

\* C17 witness: two keys are supervised with two workers each, the second key
\* seen by a later scan than the first (a worker of one key had taken a job
\* before the other key got its queue)
C17_Witness ==
    /\ monitored_channels = {"a", "a:b"}
    /\ workers_per_channel = MaxWorkersPerChannel
    /\ \E ch \in monitored_channels :
           /\ deqLog[ch] # <<>>
           /\ \E c2 \in monitored_channels :
                  /\ enqLog[c2] # <<>>
                  /\ enqLog[c2][1].job.message.id > deqLog[ch][1].message.id

(***************************************************************************)
(* Debounce coalescer.                                                     *)
(*                                                                         *)
(* A delayed_process task is [key, delay, deadline, user_id, channel_id,   *)
(* pc]: the variables of its closure, the time its sleep ends, and where   *)
(* it is suspended: "sleep" in asyncio.sleep, "put" in the queue.put of    *)
(* enqueue_message.  Task.cancel() makes the suspended await raise         *)
(* CancelledError, which delayed_process re-raises: a cancelled task runs  *)
(* no further statement of the merge, so it is removed from `tasks`.       *)
(***************************************************************************)
\* f without the key k
Without(f, k) == [x \in DOMAIN f \ {k} |-> f[x]]

\* debounce_key = f"{channel_id}:{user_id}"
DebounceKey(channel_id, user_id) == channel_id \o ":" \o user_id

RECURSIVE LStrip(_)
LStrip(text) ==
    IF text # <<>> /\ Head(text) \in Whitespace THEN LStrip(Tail(text)) ELSE text

RECURSIVE RStrip(_)
RStrip(text) ==
    IF text # <<>> /\ text[Len(text)] \in Whitespace
    THEN RStrip(SubSeq(text, 1, Len(text) - 1))
    ELSE text

\* a mutant of Strip: only leading whitespace is removed, as by str.lstrip()
StripLeading(text) == LStrip(text)

\* str.strip()
Strip(text) == RStrip(LStrip(text))

\* the value None of a message whose "text" is null: msg.get("text", "") is the
\* default only when the key is missing.  A text being a sequence of single
\* characters, this one-element sequence is none.
NoneText == <<"None">>

\* msg.get("text", "").strip() raises AttributeError: None has no strip
StripRaises(text) == text = NoneText

\* delayed_process: the loop over the accumulated messages raises
MergeRaises(accumulated) ==
    \E i \in 1..Len(accumulated) : StripRaises(accumulated[i].message.text)

\* "\n".join(parts)
RECURSIVE JoinNewline(_)
JoinNewline(parts) ==
    IF parts = <<>> THEN <<>>
    ELSE IF Len(parts) = 1 THEN parts[1]
    ELSE parts[1] \o <<"\n">> \o JoinNewline(Tail(parts))

\* a mutant of MergedTextParts: empty texts are not left out
MergedTextPartsKeepEmpty(accumulated) ==
    [i \in 1..Len(accumulated) |-> Strip(accumulated[i].message.text)]

\* delayed_process: merged_text_parts, the stripped text of every accumulated
\* message whose stripped text is not empty
MergedTextParts(accumulated) ==
    SelectSeq([i \in 1..Len(accumulated) |-> Strip(accumulated[i].message.text)],
              LAMBDA text : text # <<>>)

\* a mutant of MergedMessage: the copy is made of the last accumulated message
MergedMessageFromLast(accumulated) ==
    [accumulated[Len(accumulated)].message EXCEPT
        !.text = JoinNewline(MergedTextParts(accumulated))]

\* delayed_process: base_message, a copy of the first accumulated message with
\* the merged text
MergedMessage(accumulated) ==
    [accumulated[1].message EXCEPT !.text = JoinNewline(MergedTextParts(accumulated))]

MessageIds(accumulated) == [i \in 1..Len(accumulated) |-> accumulated[i].message.id]

\* a mutant of ImmediateProcessing: a delay of 0 is debounced like any other
ImmediateProcessingNever(delay_seconds) == FALSE

\* debounced_enqueue_message: if delay_seconds == 0
ImmediateProcessing(delay_seconds) == delay_seconds = 0

\* a mutant of TimerToCancel: the existing timer is not cancelled
TimerToCancelNone(debounce_key) == {}

\* a mutant of TimerToCancel: a timer suspended in the put of enqueue_message
\* is not cancelled, only one that sleeps
TimerToCancelSleeping(debounce_key) ==
    IF debounce_key \in DOMAIN debounce_timers
    THEN {debounce_timers[debounce_key]}
             \cap {t \in DOMAIN tasks : tasks[t].pc = "sleep"}
    ELSE {}

\* debounced_enqueue_message: the task the call cancels, the one registered
\* for the key if any (cancel() of a task that has ended changes nothing)
TimerToCancel(debounce_key) ==
    IF debounce_key \in DOMAIN debounce_timers
    THEN {debounce_timers[debounce_key]} \cap DOMAIN tasks
    ELSE {}

\* debounced_enqueue_message(message, delay_seconds)
Submit(channel_id, user_id, text, delay_seconds) ==
    LET message == [id |-> msgNext + 1, channel |-> channel_id,
                    user |-> user_id, text |-> text]
        debounce_key == DebounceKey(channel_id, user_id)
        cancelled == TimerToCancel(debounce_key)
        task == [key |-> debounce_key, delay |-> delay_seconds,
                 deadline |-> now + delay_seconds, user_id |-> user_id,
                 channel_id |-> channel_id, pc |-> "sleep"]
        entry == [message |-> message, timestamp |-> now]
    IN
    /\ Len(submitLog) < MaxSubmits
    /\ msgNext' = msgNext + 1
    /\ submitLog' = Append(submitLog, [message |-> message, delay |-> delay_seconds,
                                       time |-> now, key |-> debounce_key])
    /\ IF ImmediateProcessing(delay_seconds)
       THEN /\ EnqueueMessageCall(message, [task |-> 0, kind |-> "immediate",
                                            key |-> debounce_key, parts |-> <<message.id>>])
            /\ UNCHANGED <<accumulated_messages, debounce_timers, tasks, taskNext,
                           cancelledAt>>
       ELSE /\ accumulated_messages' =
                  IF debounce_key \in DOMAIN accumulated_messages
                  THEN [accumulated_messages EXCEPT ![debounce_key] = Append(@, entry)]
                  ELSE accumulated_messages @@ (debounce_key :> <<entry>>)
            \* the cancelled task leaves the put it may be suspended in
            /\ message_queues' =
                  [ch \in DOMAIN message_queues |->
                      [message_queues[ch] EXCEPT
                          !.putters = {p \in @ : p.caller.task \notin cancelled}]]
            /\ taskNext' = taskNext + 1
            /\ tasks' = [t \in DOMAIN tasks \ cancelled |-> tasks[t]]
                            @@ ((taskNext + 1) :> task)
            /\ cancelledAt' = cancelledAt \cup {tasks[t].pc : t \in cancelled}
            /\ debounce_timers' =
                  IF debounce_key \in DOMAIN debounce_timers
                  THEN [debounce_timers EXCEPT ![debounce_key] = taskNext + 1]
                  ELSE debounce_timers @@ (debounce_key :> (taskNext + 1))
            /\ UNCHANGED <<enqLog, queuesCreated>>
    /\ UNCHANGED <<chan_started, workers_per_channel, monitored_channels, channel_workers, deqLog, now>>
    /\ UNCHANGED <<memVars, orchVars>>

\* a mutant of Cleanup: the pending list is not deleted
CleanupKeepsPending(debounce_key) ==
    /\ debounce_timers' = Without(debounce_timers, debounce_key)
    /\ UNCHANGED accumulated_messages

\* a mutant of Cleanup: the timer entry is not deleted
CleanupKeepsTimer(debounce_key) ==
    /\ accumulated_messages' = Without(accumulated_messages, debounce_key)
    /\ UNCHANGED debounce_timers

\* delayed_process: Cleanup
Cleanup(debounce_key) ==
    /\ accumulated_messages' = Without(accumulated_messages, debounce_key)
    /\ debounce_timers' = Without(debounce_timers, debounce_key)

\* a mutant of ErrorCleanup: only the pending list is deleted
ErrorCleanupKeepsTimer(debounce_key) ==
    /\ accumulated_messages' = Without(accumulated_messages, debounce_key)
    /\ UNCHANGED debounce_timers

\* delayed_process, except Exception: "Cleanup on error as well"
ErrorCleanup(debounce_key) ==
    /\ accumulated_messages' = Without(accumulated_messages, debounce_key)
    /\ debounce_timers' = Without(debounce_timers, debounce_key)

\* delayed_process: asyncio.sleep(delay_seconds) is over; the accumulated
\* messages of the key are merged and enqueue_message is called; if its put
\* completes at once the cleanup follows, otherwise the task stays suspended
\* in the put.  With no text at all nothing is enqueued.  When the loop over
\* the messages raises, nothing was enqueued yet and the except clause cleans up.
TimerFires(t) ==
    LET debounce_key == tasks[t].key IN
    /\ t \in DOMAIN tasks
    /\ tasks[t].pc = "sleep"
    /\ now >= tasks[t].deadline
    /\ IF debounce_key \in DOMAIN accumulated_messages
       THEN LET accumulated == accumulated_messages[debounce_key]
                base_message == MergedMessage(accumulated)
            IN IF MergeRaises(accumulated)
               THEN /\ ErrorCleanup(debounce_key)
                    /\ tasks' = Without(tasks, t)
                    /\ UNCHANGED <<message_queues, enqLog, queuesCreated>>
               ELSE IF MergedTextParts(accumulated) # <<>>
               THEN /\ EnqueueMessageCall(base_message,
                           [task |-> t, kind |-> "merged", key |-> debounce_key,
                            parts |-> MessageIds(accumulated)])
                    /\ IF PutCompletes(base_message)
                       THEN /\ Cleanup(debounce_key)
                            /\ tasks' = Without(tasks, t)
                       ELSE /\ tasks' = [tasks EXCEPT ![t].pc = "put"]
                            /\ UNCHANGED <<accumulated_messages, debounce_timers>>
               ELSE /\ Cleanup(debounce_key)
                    /\ tasks' = Without(tasks, t)
                    /\ UNCHANGED <<message_queues, enqLog, queuesCreated>>
       ELSE /\ tasks' = Without(tasks, t)
            /\ UNCHANGED <<message_queues, enqLog, queuesCreated, accumulated_messages,
                           debounce_timers>>
    /\ UNCHANGED <<chan_started, workers_per_channel, monitored_channels, channel_workers, msgNext, deqLog,
                   now, taskNext, submitLog, cancelledAt>>
    /\ UNCHANGED <<memVars, orchVars>>

\* delayed_process suspended in the put of enqueue_message gets its slot:
\* the merged message is put, then the cleanup
DelayedProcessResume(ch, putter) ==
    /\ ch \in DOMAIN message_queues
    /\ putter \in message_queues[ch].putters
    /\ putter.caller.task \in DOMAIN tasks
    /\ ~QueueFull(message_queues[ch])
    /\ PutResumeCall(ch, putter)
    /\ Cleanup(putter.caller.key)
    /\ tasks' = Without(tasks, putter.caller.task)
    /\ UNCHANGED <<queuesCreated, chan_started, workers_per_channel, monitored_channels, channel_workers, msgNext, deqLog,
                   now, taskNext, submitLog, cancelledAt>>
    /\ UNCHANGED <<memVars, orchVars>>

\* the clock advances by one tick; a sleep that is over ends before it does
Tick(maxTime) ==
    /\ now < maxTime \/ \E t \in DOMAIN tasks : tasks[t].pc = "sleep"
    /\ \A t \in DOMAIN tasks : tasks[t].pc = "sleep" => now < tasks[t].deadline
    /\ now' = now + 1
    /\ UNCHANGED <<accumulated_messages, debounce_timers, tasks, taskNext, submitLog,
                   cancelledAt>>
    /\ UNCHANGED <<memVars, chanVars, orchVars>>

\* the inputs of the producers
Pairs == {<<"a", "b:c">>, <<"a:b", "c">>, <<"a", "c">>}
Texts == {<<" ", "a">>, <<"b">>, <<" ">>}
Delays == {0, 1}

NextDeb ==
    \/ \E pair \in Pairs, text \in Texts, delay \in Delays :
           now <= MaxTime /\ Submit(pair[1], pair[2], text, delay)
    \/ \E t \in DOMAIN tasks : TimerFires(t)
    \/ \E cp \in AllPutters : DelayedProcessResume(cp[1], cp[2])
    \/ Tick(MaxTime)
    \/ NextChanWorkers({1})

SpecDeb == Init /\ [][NextDeb]_vars

\* Bursts under backpressure: two users of one channel submit with a delay
\* while producers that call enqueue_message directly fill the channel queue.
BurstPairs == {<<"a", "c">>, <<"a", "b:c">>}

NextBurstOf(texts) ==
    \/ msgNext < MaxBurstMessages /\ EnqueueMessage("a", "c", <<"b">>)
    \/ \E pair \in BurstPairs, text \in texts :
           /\ msgNext < MaxBurstMessages
           /\ now <= MaxTime
           /\ Submit(pair[1], pair[2], text, 1)
    \/ \E t \in DOMAIN tasks : TimerFires(t)
    \/ \E cp \in AllPutters : DelayedProcessResume(cp[1], cp[2])
    \/ Tick(MaxTime)
    \/ NextChanWorkers({1})

NextBurst == NextBurstOf({<<"b">>, <<" ">>})

SpecBurst == Init /\ [][NextBurst]_vars

\* The event loop runs every task that is ready and the clock advances; the
\* channel workers are started and process_func ends every call.
FairSpecBurst ==
    /\ SpecBurst
    /\ WF_vars(\E t \in DOMAIN tasks : TimerFires(t))
    /\ WF_vars(\E cp \in AllPutters : DelayedProcessResume(cp[1], cp[2]))
    /\ WF_vars(\E cp \in AllPutters : ProducerPutResume(cp[1], cp[2]))
    /\ WF_vars(Tick(MaxTime))
    /\ WF_vars(StartChannelWorkers(1))
    /\ WF_vars(MonitorScan)
    /\ WF_vars(\E cw \in AllChannelWorkers : ChannelWorkerGet(cw[1], cw[2]))
    /\ WF_vars(\E cw \in AllChannelWorkers, outcome \in Outcomes :
                   ChannelWorkerDone(cw[1], cw[2], outcome))

\* The same with inputs whose text is None, on which the merge raises.
NextBurstErr == NextBurstOf({<<"b">>, NoneText})

SpecBurstErr == Init /\ [][NextBurstErr]_vars

\* The timing scenario: "a", "b", "c" to (C1, U1), one every 0.3 s, with a
\* delay of 2.0 s, in ticks of 0.1 s; the forward is claimed for about 2.3 s
\* after the first submit, and "about" is read as within 0.2 s.
Scenario ==
    [channel |-> "C1", user |-> "U1", texts |-> << <<"a">>, <<"b">>, <<"c">> >>,
     delay |-> 20, gap |-> 3, claimed |-> 23, tolerance |-> 2]

NextScenario ==
    \/ /\ Len(submitLog) < Len(Scenario.texts)
       /\ now <= ScenarioMaxTime
       /\ Submit(Scenario.channel, Scenario.user,
                 Scenario.texts[Len(submitLog) + 1], Scenario.delay)
    \/ \E t \in DOMAIN tasks : TimerFires(t)
    \/ Tick(ScenarioMaxTime)

SpecScenario == Init /\ [][NextScenario]_vars

(***************************************************************************)
(* Claims about the debounce coalescer.                                    *)
(***************************************************************************)
AllKeys == {DebounceKey(ch, u) : ch \in ChannelIds, u \in UserIds}

\* the calls with delay > 0 that went to the bucket of key k, in order
DebouncedSubmits(k) ==
    SelectSeq([i \in 1..Len(submitLog) |-> i],
              LAMBDA i : submitLog[i].key = k /\ submitLog[i].delay > 0)

\* the merged jobs forwarded for the bucket of key k, as <<channel, position>>
MergedForwards(k) ==
    {f \in UNION {{<<ch, i>> : i \in 1..Len(enqLog[ch])} : ch \in ChannelIds} :
        enqLog[f[1]][f[2]].kind = "merged" /\ enqLog[f[1]][f[2]].key = k}

\* the bucket of key k received exactly three inputs A, B, C with delay > 0,
\* every gap smaller than the delay running at the time
Burst3(k) ==
    LET S == DebouncedSubmits(k) IN
    /\ Len(S) = 3
    /\ \A j \in 1..2 :
           submitLog[S[j + 1]].time - submitLog[S[j]].time < submitLog[S[j]].delay

\* the texts, trimmed, those that are empty left out, joined by newlines
RECURSIVE JoinTrimmed(_)
JoinTrimmed(texts) ==
    IF texts = <<>> THEN <<>>
    ELSE LET first == Strip(Head(texts))
             rest == JoinTrimmed(Tail(texts))
         IN IF first = <<>> THEN rest
            ELSE IF rest = <<>> THEN first
            ELSE first \o <<"\n">> \o rest

BurstTexts(k) ==
    [j \in 1..Len(DebouncedSubmits(k)) |-> submitLog[DebouncedSubmits(k)[j]].message.text]

\* C6 as claimed: once the bucket of a burst A, B, C is flushed, exactly one job
\* was forwarded for it, and its text is A.text + "\n" + B.text + "\n" + C.text.
C6_MergedTextIsRawJoin ==
    \A k \in AllKeys :
        Burst3(k) /\ k \notin DOMAIN accumulated_messages =>
            \E f \in MergedForwards(k) :
                /\ MergedForwards(k) = {f}
                /\ enqLog[f[1]][f[2]].job.message.text =
                       BurstTexts(k)[1] \o <<"\n">> \o BurstTexts(k)[2]
                           \o <<"\n">> \o BurstTexts(k)[3]

\* C6 amended: for a burst A, B, C to one bucket (the inputs whose
\* "channel:user" key is the same), nothing is forwarded for the bucket before
\* it is flushed; once it is flushed exactly one job was forwarded, to the
\* channel of A, made of A, B and C, and its text is the newline-join, in
\* submission order, of the trimmed texts that are not empty (which is
\* A.text + "\n" + B.text + "\n" + C.text when no text is empty or has leading or
\* trailing whitespace); when all three trimmed texts are empty no job is.
C6_MergedTextIsTrimmedJoin ==
    \A k \in AllKeys :
        Burst3(k) =>
            IF k \in DOMAIN accumulated_messages \/ JoinTrimmed(BurstTexts(k)) = <<>>
            THEN MergedForwards(k) = {}
            ELSE \E f \in MergedForwards(k) :
                    /\ MergedForwards(k) = {f}
                    /\ f[1] = submitLog[DebouncedSubmits(k)[1]].message.channel
                    /\ enqLog[f[1]][f[2]].parts = DebouncedSubmits(k)
                    /\ enqLog[f[1]][f[2]].job.message.text = JoinTrimmed(BurstTexts(k))

\* C6 witness: a burst " a", " ", "b" was flushed and forwarded as "a\nb"
C6_Witness ==
    \E k \in AllKeys :
        /\ Burst3(k)
        /\ k \notin DOMAIN accumulated_messages
        /\ BurstTexts(k) = << <<" ", "a">>, <<" ">>, <<"b">> >>
        /\ \E f \in MergedForwards(k) :
               enqLog[f[1]][f[2]].job.message.text = <<"a", "\n", "b">>

\* the scenario's three submits were made, the first at t0
ScenarioHistory(t0) ==
    /\ Len(submitLog) = 3
    /\ \A j \in 1..3 : submitLog[j].time = t0 + (j - 1) * Scenario.gap

ScenarioForwarded ==
    /\ Len(enqLog[Scenario.channel]) = 1
    /\ enqLog[Scenario.channel][1].job.message.text = <<"a", "\n", "b", "\n", "c">>

\* C7 as claimed: about 2.3 s after the first submit exactly one job, with text
\* "a\nb\nc", has reached the channel queue.
C7_ForwardedAfterClaimedTime ==
    \A t0 \in 0..ScenarioMaxTime :
        ScenarioHistory(t0) /\ now >= t0 + Scenario.claimed + Scenario.tolerance
            => ScenarioForwarded

\* C7 amended: the three messages result in exactly one job reaching the
\* channel queue, with text "a\nb\nc", 2.0 s after the third submit, which is
\* 2.6 s after the first; until then no job has reached the queue.
C7_ForwardedDelayAfterLastSubmit ==
    \A t0 \in 0..ScenarioMaxTime :
        ScenarioHistory(t0) =>
            LET due == t0 + 2 * Scenario.gap + Scenario.delay IN
            /\ now < due => enqLog[Scenario.channel] = <<>>
            /\ tasks = <<>> => ScenarioForwarded
            /\ enqLog[Scenario.channel] # <<>> =>
                   ScenarioForwarded /\ enqLog[Scenario.channel][1].time = due

\* C7 witness: the scenario was run and its job is in the channel queue
C7_Witness ==
    /\ ScenarioHistory(0)
    /\ ScenarioForwarded
    /\ now = 2 * Scenario.gap + Scenario.delay
    /\ Len(message_queues[Scenario.channel].items) = 1

\* the last call with delay > 0 to the bucket of key k among the first n calls
\* (0 if there is none)
LastDebouncedSubmit(k, n) ==
    LET S == {i \in 1..n : submitLog[i].key = k /\ submitLog[i].delay > 0}
    IN IF S = {} THEN 0 ELSE CHOOSE i \in S : \A j \in S : j <= i

\* C8: every submit with delay > 0 restarts the countdown of its bucket: the
\* bucket's only timer is the one of its most recent submit, due a full delay
\* after it; and a merged job is forwarded only when a full delay has elapsed
\* since the most recent submit to its bucket, which the merged job contains.
C8_CountdownRestarts ==
    /\ \A t \in DOMAIN tasks :
           /\ tasks[t].key \in DOMAIN debounce_timers
           /\ debounce_timers[tasks[t].key] = t
    /\ \A k \in DOMAIN accumulated_messages :
           LET last == LastDebouncedSubmit(k, Len(submitLog)) IN
           /\ last > 0
           /\ k \in DOMAIN debounce_timers
           /\ debounce_timers[k] \in DOMAIN tasks
           /\ tasks[debounce_timers[k]].deadline =
                  submitLog[last].time + submitLog[last].delay
    /\ \A ch \in ChannelIds : \A i \in 1..Len(enqLog[ch]) :
           LET e == enqLog[ch][i]
               last == LastDebouncedSubmit(e.key, e.nsub)
           IN e.kind = "merged" =>
                  /\ last > 0
                  /\ e.time >= submitLog[last].time + submitLog[last].delay
                  /\ e.parts # <<>> /\ e.parts[Len(e.parts)] = last

\* C8 witness: a bucket got a second input one tick after the first, and the
\* merged job of the two was forwarded a full delay after the second
C8_Witness ==
    \E ch \in ChannelIds : \E i \in 1..Len(enqLog[ch]) :
        LET e == enqLog[ch][i] IN
        /\ e.kind = "merged"
        /\ Len(e.parts) = 2
        /\ submitLog[e.parts[1]].time < submitLog[e.parts[2]].time
        /\ e.time = submitLog[e.parts[2]].time + submitLog[e.parts[2]].delay

\* the completed puts that contain message id, as <<channel, position>>
ForwardsOf(id) ==
    {f \in UNION {{<<ch, i>> : i \in 1..Len(enqLog[ch])} : ch \in ChannelIds} :
        \E j \in 1..Len(enqLog[f[1]][f[2]].parts) : enqLog[f[1]][f[2]].parts[j] = id}

\* C9: every submission with delay 0 is forwarded as a job of its own, with
\* its message unchanged, to the queue of its channel: at the time of the
\* submit, or, the queue being full, by the producer suspended in the put; it
\* never enters a bucket and never is part of a merged job.
C9_DelayZeroBypasses ==
    \A i \in 1..Len(submitLog) :
        submitLog[i].delay = 0 =>
            LET m == submitLog[i].message
                waiting == IF m.channel \in DOMAIN message_queues
                           THEN {p \in message_queues[m.channel].putters :
                                    p.caller.parts = <<i>> /\ p.job = JobOf(m)}
                           ELSE {}
            IN
            /\ \A k \in DOMAIN accumulated_messages :
                   \A j \in 1..Len(accumulated_messages[k]) :
                       accumulated_messages[k][j].message.id # i
            /\ \A f \in ForwardsOf(i) :
                   LET e == enqLog[f[1]][f[2]] IN
                   /\ f[1] = m.channel
                   /\ e.kind = "immediate"
                   /\ e.parts = <<i>>
                   /\ e.job = JobOf(m)
                   /\ ~e.waited => e.time = submitLog[i].time /\ e.nsub = i - 1
            /\ Cardinality(ForwardsOf(i)) + Cardinality(waiting) = 1

\* C9 witness: two contiguous delay-0 submits of one bucket, with texts that
\* have whitespace to trim, are two jobs in the channel queue
C9_Witness ==
    \E ch \in ChannelIds :
        /\ Len(enqLog[ch]) >= 2
        /\ enqLog[ch][1].kind = "immediate" /\ enqLog[ch][2].kind = "immediate"
        /\ enqLog[ch][1].key = enqLog[ch][2].key
        /\ enqLog[ch][1].time = enqLog[ch][2].time
        /\ enqLog[ch][1].job.message.text = <<" ", "a">>
        /\ enqLog[ch][2].job.message.text = <<" ">>
        /\ enqLog[ch][1].parts = <<1>> /\ enqLog[ch][2].parts = <<2>>

\* the (channel, user) pair of the message with this id
PairOf(id) == <<submitLog[id].message.channel, submitLog[id].message.user>>

\* C10 as claimed: inputs of two distinct (channel, user) pairs are never
\* pending in one bucket nor merged into one job, and the timer that runs
\* for pending inputs was started by a submit of their own pair.
C10_BucketIsolation ==
    /\ \A ch \in ChannelIds : \A i \in 1..Len(enqLog[ch]) :
           \A p, q \in 1..Len(enqLog[ch][i].parts) :
               PairOf(enqLog[ch][i].parts[p]) = PairOf(enqLog[ch][i].parts[q])
    /\ \A k \in DOMAIN accumulated_messages :
           \A j \in 1..Len(accumulated_messages[k]) :
               LET m == accumulated_messages[k][j].message IN
               /\ <<m.channel, m.user>> = PairOf(accumulated_messages[k][1].message.id)
               /\ k \in DOMAIN debounce_timers /\ debounce_timers[k] \in DOMAIN tasks =>
                      /\ tasks[debounce_timers[k]].channel_id = m.channel
                      /\ tasks[debounce_timers[k]].user_id = m.user

\* the id of the delayed_process task started by the i-th call: the tasks are
\* numbered in the order the calls with delay > 0 create them
TimerOf(i) == Cardinality({j \in 1..i : submitLog[j].delay > 0})

\* the most recently started timer of the bucket of key k (0 if there is none)
LatestTimer(k) ==
    LET last == LastDebouncedSubmit(k, Len(submitLog))
    IN IF last = 0 THEN 0 ELSE TimerOf(last)

\* this step ends the most recently started timer of the bucket of key k
EndsLatestTimer(k) ==
    /\ LatestTimer(k) \in DOMAIN tasks
    /\ LatestTimer(k) \notin DOMAIN tasks'

\* this step puts a merged job of the bucket of key k on a channel queue
ForwardsMerged(k) ==
    \E ch \in ChannelIds :
        /\ Len(enqLog'[ch]) > Len(enqLog[ch])
        /\ enqLog'[ch][Len(enqLog'[ch])].kind = "merged"
        /\ enqLog'[ch][Len(enqLog'[ch])].key = k

\* this step removes the pending list of the bucket of key k
ClearsBucket(k) ==
    k \in DOMAIN accumulated_messages /\ k \notin DOMAIN accumulated_messages'

\* C15: a timer invocation superseded by a later submit to its bucket is
\* cancelled and runs no further: the only live timer of a bucket is the most
\* recently started one, and every step that forwards a merged job of a bucket
\* or clears the bucket is the end of the bucket's most recently started timer.
C15_OnlyLatestTimerMerges ==
    /\ [](\A t \in DOMAIN tasks : t = LatestTimer(tasks[t].key))
    /\ [][\A k \in AllKeys :
             ForwardsMerged(k) \/ ClearsBucket(k) => EndsLatestTimer(k)]_vars

\* C15 witness: a bucket got three inputs, each of the later two cancelling the
\* timer started before it, and the third timer forwarded the job merged from
\* the three and cleared the bucket
C15_Witness ==
    \E k \in AllKeys :
        /\ Len(DebouncedSubmits(k)) = 3
        /\ TimerOf(Len(submitLog)) = 3
        /\ k \notin DOMAIN accumulated_messages
        /\ tasks = <<>>
        /\ \E f \in MergedForwards(k) :
               /\ MergedForwards(k) = {f}
               /\ enqLog[f[1]][f[2]].parts = DebouncedSubmits(k)

\* every character of every accumulated text is whitespace
AllBlank(accumulated) ==
    \A i \in 1..Len(accumulated) :
        \A c \in 1..Len(accumulated[i].message.text) :
            accumulated[i].message.text[c] \in Whitespace

\* this step is the expiry of timer t on a bucket whose texts are all empty
\* after trimming (a timer that is cancelled ends in a step of a new call)
EmptyBurstExpires(t) ==
    /\ t \in DOMAIN tasks
    /\ tasks[t].pc = "sleep"
    /\ t \notin DOMAIN tasks'
    /\ submitLog' = submitLog
    /\ tasks[t].key \in DOMAIN accumulated_messages
    /\ AllBlank(accumulated_messages[tasks[t].key])

\* C19: when the timer of a bucket expires and every accumulated text is empty
\* after trimming, nothing is put on any channel queue, and the bucket's
\* pending list and timer entry are removed; no merged job with an empty text
\* is ever forwarded.
C19_EmptyBurstDropped ==
    /\ [](\A ch \in ChannelIds : \A i \in 1..Len(enqLog[ch]) :
             enqLog[ch][i].kind = "merged" => enqLog[ch][i].job.message.text # <<>>)
    /\ [][\A t \in 1..MaxSubmits :
             EmptyBurstExpires(t) =>
                 /\ enqLog' = enqLog
                 /\ message_queues' = message_queues
                 /\ tasks[t].key \notin DOMAIN accumulated_messages'
                 /\ tasks[t].key \notin DOMAIN debounce_timers']_vars

\* C19 witness: a bucket got two inputs of whitespace only, its timer expired,
\* the bucket is gone and no queue was created for a job
C19_Witness ==
    \E k \in AllKeys :
        /\ Len(DebouncedSubmits(k)) = 2
        /\ Len(submitLog) = 2
        /\ \A j \in 1..2 : submitLog[j].message.text = <<" ">>
        /\ tasks = <<>>
        /\ k \notin DOMAIN accumulated_messages
        /\ k \notin DOMAIN debounce_timers
        /\ message_queues = <<>>

\* the merges of the bucket of key k suspended in the put of enqueue_message,
\* as <<channel, putter>>
MergesInProgress(k) ==
    {cp \in AllPutters : cp[2].caller.kind = "merged" /\ cp[2].caller.key = k}

\* the live delayed_process tasks of the bucket of key k
TimersOf(k) == {t \in DOMAIN tasks : tasks[t].key = k}

\* the merged job of the bucket of key k this step puts on a channel queue
ForwardedEntry(k) ==
    LET ch == CHOOSE c \in ChannelIds :
                  /\ Len(enqLog'[c]) > Len(enqLog[c])
                  /\ enqLog'[c][Len(enqLog'[c])].key = k
    IN enqLog'[ch][Len(enqLog'[ch])]

\* this step appends an input to the pending list of the bucket of key k
AppendsToBucket(k) ==
    /\ k \in DOMAIN accumulated_messages
    /\ k \in DOMAIN accumulated_messages'
    /\ accumulated_messages'[k] # accumulated_messages[k]

\* C23: for every bucket at most one timer invocation is live and at most one
\* merge is in progress; a merge suspended on the full channel queue holds the
\* job made of exactly the inputs pending in the bucket; a step that appends to
\* the bucket while a merge is suspended cancels that merge and withdraws its
\* put; and the job a merge forwards is made of exactly the inputs pending at
\* the instant of the forward, which clears the bucket.
C23_MergeExclusion ==
    /\ [](\A k \in AllKeys :
            /\ Cardinality(TimersOf(k)) <= 1
            /\ Cardinality(MergesInProgress(k)) <= 1
            /\ \A cp \in MergesInProgress(k) :
                   /\ k \in DOMAIN accumulated_messages
                   /\ cp[2].caller.parts = MessageIds(accumulated_messages[k])
                   /\ cp[2].job = JobOf(MergedMessage(accumulated_messages[k]))
                   /\ TimersOf(k) = {cp[2].caller.task}
                   /\ tasks[cp[2].caller.task].pc = "put")
    /\ [][\A k \in AllKeys :
            /\ AppendsToBucket(k) =>
                   \A cp \in MergesInProgress(k) :
                       /\ cp[2].caller.task \notin DOMAIN tasks'
                       /\ cp \notin AllPutters'
            /\ ForwardsMerged(k) =>
                   /\ k \in DOMAIN accumulated_messages
                   /\ ForwardedEntry(k).parts = MessageIds(accumulated_messages[k])
                   /\ ForwardedEntry(k).job = JobOf(MergedMessage(accumulated_messages[k]))
                   /\ ClearsBucket(k)]_vars

\* C23 witness: a merge suspended on the full channel queue was cancelled by a
\* submit to its bucket, and the merge of the timer that submit started is
\* now suspended, holding the job made of the two inputs of the bucket
C23_Witness ==
    /\ cancelledAt = {"put"}
    /\ \E k \in AllKeys :
        /\ MergesInProgress(k) # {}
        /\ Len(accumulated_messages[k]) = 2

\* this step is a submit that finds no pending list for the bucket of key k
\* and creates one
StartsBurst(k) ==
    k \notin DOMAIN accumulated_messages /\ k \in DOMAIN accumulated_messages'

\* the burst begun in this step holds the submitted message only, and the
\* timer registered for the bucket is the new task, asleep
FreshBurst(k) ==
    /\ Len(accumulated_messages'[k]) = 1
    /\ accumulated_messages'[k][1].message = submitLog'[Len(submitLog')].message
    /\ k \in DOMAIN debounce_timers'
    /\ debounce_timers'[k] = taskNext'
    /\ taskNext' = taskNext + 1
    /\ tasks'[taskNext'].pc = "sleep"
    /\ tasks'[taskNext'].key = k

\* the ids of the inputs pending in some bucket
PendingIds ==
    UNION {{accumulated_messages[k][j].message.id : j \in 1..Len(accumulated_messages[k])} :
              k \in DOMAIN accumulated_messages}

\* the jobs in the queue of a channel, none when the queue is not created yet
ItemsOf(ch) ==
    IF ch \in DOMAIN message_queues THEN message_queues[ch].items ELSE <<>>

\* C26: the merged job a timer forwards is the first pending input of the
\* bucket with the merged text in place of its text (channel, user and identity
\* are those of the first input), it is put on the queue of that input's
\* channel, and the same step removes the bucket's pending list and timer
\* entry; no pending input is part of a job forwarded before, and a submit to a
\* bucket without pending list starts a burst of its own message only, with a
\* new timer.
C26_NaturalExpiry ==
    /\ [](\A id \in PendingIds : ForwardsOf(id) = {})
    /\ [][\A k \in AllKeys :
            /\ ForwardsMerged(k) =>
                   LET first == accumulated_messages[k][1].message
                       merged == ForwardedEntry(k).job.message
                   IN /\ merged.channel = first.channel
                      /\ merged.user = first.user
                      /\ merged.id = first.id
                      /\ merged.text = JoinTrimmed([j \in 1..Len(accumulated_messages[k]) |->
                                            accumulated_messages[k][j].message.text])
                      /\ enqLog'[first.channel] =
                             Append(enqLog[first.channel], ForwardedEntry(k))
                      /\ message_queues'[first.channel].items =
                             Append(ItemsOf(first.channel), ForwardedEntry(k).job)
                      /\ k \notin DOMAIN accumulated_messages'
                      /\ k \notin DOMAIN debounce_timers'
            /\ StartsBurst(k) => FreshBurst(k)]_vars

\* C26 witness: the job merged from two inputs of a bucket was forwarded, and
\* a third input to the bucket is now pending alone
C26_Witness ==
    \E k \in AllKeys :
        /\ k \in DOMAIN accumulated_messages
        /\ Len(accumulated_messages[k]) = 1
        /\ Len(DebouncedSubmits(k)) = 3
        /\ \E f \in MergedForwards(k) :
               /\ Len(enqLog[f[1]][f[2]].parts) = 2
               /\ enqLog[f[1]][f[2]].job.message.id = enqLog[f[1]][f[2]].parts[1]

\* the text of a message is None
HasNoText(entry) == entry.message.text = <<"None">>

\* this step is the expiry of timer t on a bucket one of whose inputs has no
\* text (a timer that is cancelled ends in a step of a new call)
RaisingMergeExpires(t) ==
    /\ t \in DOMAIN tasks
    /\ tasks[t].pc = "sleep"
    /\ t \notin DOMAIN tasks'
    /\ submitLog' = submitLog
    /\ tasks[t].key \in DOMAIN accumulated_messages
    /\ \E j \in 1..Len(accumulated_messages[tasks[t].key]) :
           HasNoText(accumulated_messages[tasks[t].key][j])

\* this step cancels timer t
Cancels(t) ==
    /\ t \in DOMAIN tasks
    /\ t \notin DOMAIN tasks'
    /\ submitLog' # submitLog

\* C27: when the merge of a bucket raises at the expiry of its timer, the
\* step removes the bucket's pending list and timer entry, puts nothing on any
\* queue and changes no other task and no suspended producer; a submit to a
\* bucket without pending list starts a burst of its own message only, with a
\* new timer; and a step that cancels a timer leaves the pending list, with
\* the inputs it had, and a timer entry in place.
C27_MergeFailureClearsBucket ==
    [][/\ \A t \in 1..MaxSubmits :
            /\ RaisingMergeExpires(t) =>
                   /\ tasks[t].key \notin DOMAIN accumulated_messages'
                   /\ tasks[t].key \notin DOMAIN debounce_timers'
                   /\ tasks' = Without(tasks, t)
                   /\ UNCHANGED <<message_queues, enqLog>>
                   /\ \A k \in DOMAIN accumulated_messages \ {tasks[t].key} :
                          /\ k \in DOMAIN accumulated_messages'
                          /\ accumulated_messages'[k] = accumulated_messages[k]
            /\ Cancels(t) =>
                   /\ tasks[t].key \in DOMAIN accumulated_messages'
                   /\ IsPrefix(accumulated_messages[tasks[t].key],
                               accumulated_messages'[tasks[t].key])
                   /\ tasks[t].key \in DOMAIN debounce_timers'
                   /\ debounce_timers'[tasks[t].key] \in DOMAIN tasks'
       /\ \A k \in AllKeys : StartsBurst(k) => FreshBurst(k)]_vars

\* C27 witness: the merge of a bucket raised on an input without text; of the
\* two inputs submitted to the bucket since, the second cancelled the timer of
\* the first, and these two are the pending list
C27_Witness ==
    \E k \in AllKeys :
        /\ Len(DebouncedSubmits(k)) = 3
        /\ HasNoText(submitLog[DebouncedSubmits(k)[1]])
        /\ MergedForwards(k) = {}
        /\ k \in DOMAIN accumulated_messages
        /\ Len(accumulated_messages[k]) = 2
        /\ ~HasNoText(accumulated_messages[k][1])
        /\ cancelledAt = {"sleep"}

\* the inputs submitted with a delay whose trimmed text is not empty, as
\* positions of the history
TextInputs ==
    {i \in 1..Len(submitLog) :
        submitLog[i].delay > 0 /\ Strip(submitLog[i].message.text) # <<>>}

\* the merged jobs forwarded that contain message id
MergedForwardsOf(id) ==
    {f \in ForwardsOf(id) : enqLog[f[1]][f[2]].kind = "merged"}

\* C28: every input submitted with a delay whose trimmed text is not empty is
\* part of at most one forwarded merged job, and of exactly one once it is no
\* longer pending in its bucket.
C28_DebounceConservation ==
    \A i \in TextInputs :
        LET id == submitLog[i].message.id IN
        /\ Cardinality(MergedForwardsOf(id)) <= 1
        /\ id \notin PendingIds => Cardinality(MergedForwardsOf(id)) = 1

\* C28 witness: a merge suspended on the full channel queue was cancelled by a
\* submit to its bucket; the bucket is flushed, and the one job forwarded for
\* it, by a timer that had to wait for a slot too, holds both inputs
C28_Witness ==
    /\ cancelledAt = {"put"}
    /\ accumulated_messages = <<>>
    /\ tasks = <<>>
    /\ \E k \in AllKeys : \E f \in MergedForwards(k) :
           /\ MergedForwards(k) = {f}
           /\ Len(enqLog[f[1]][f[2]].parts) = 2
           /\ enqLog[f[1]][f[2]].waited

\* no input is pending, no timer registered or live
AllFlushed ==
    /\ accumulated_messages = <<>>
    /\ debounce_timers = <<>>
    /\ tasks = <<>>

\* this step is a submit with a delay to the bucket of key k, which has
\* pending inputs
Resubmits(k) ==
    /\ k \in DOMAIN accumulated_messages
    /\ Len(submitLog') > Len(submitLog)
    /\ submitLog'[Len(submitLog')].key = k
    /\ submitLog'[Len(submitLog')].delay > 0

\* the call of the history that submitted message id
SubmitOf(id) == CHOOSE i \in 1..Len(submitLog) : submitLog[i].message.id = id

\* C29: the submits having stopped and the channel workers making room in the
\* queue, every bucket is flushed and removed in the end; but a bucket is not
\* cleared before a full delay has passed since the most recent submit to it,
\* however long its first input has waited, and every submit that comes
\* before adds one input to the pending list, whatever its length.
C29_DebounceLiveness ==
    /\ []<>AllFlushed
    /\ [][\A k \in AllKeys :
            /\ ClearsBucket(k) =>
                   LET last == LastDebouncedSubmit(k, Len(submitLog)) IN
                   now >= submitLog[last].time + submitLog[last].delay
            /\ Resubmits(k) =>
                   /\ k \in DOMAIN accumulated_messages'
                   /\ Len(accumulated_messages'[k]) = Len(accumulated_messages[k]) + 1
                   /\ IsPrefix(accumulated_messages[k], accumulated_messages'[k])
                   /\ ~ClearsBucket(k)]_vars

\* C29 witness: all is flushed, and a merged job was forwarded two delays
\* after its first input was submitted, a later input having restarted the
\* countdown
C29_Witness ==
    /\ AllFlushed
    /\ \E ch \in ChannelIds : \E i \in 1..Len(enqLog[ch]) :
           LET e == enqLog[ch][i] IN
           /\ e.kind = "merged"
           /\ Len(e.parts) >= 2
           /\ ~e.waited
           /\ e.time >= submitLog[SubmitOf(e.parts[1])].time
                            + 2 * submitLog[SubmitOf(e.parts[1])].delay

\* C30: in every state the keys with a pending list are the keys with a
\* registered timer; every pending list is non-empty; and the timer registered
\* for a key is live and is the one started by the most recent submit with a
\* delay to that key.
C30_DebounceBookkeeping ==
    /\ DOMAIN accumulated_messages = DOMAIN debounce_timers
    /\ \A k \in DOMAIN accumulated_messages :
           /\ accumulated_messages[k] # <<>>
           /\ debounce_timers[k] \in DOMAIN tasks
           /\ tasks[debounce_timers[k]].key = k
           /\ debounce_timers[k] = LatestTimer(k)
    /\ \A t \in DOMAIN tasks :
           /\ tasks[t].key \in DOMAIN debounce_timers
           /\ debounce_timers[tasks[t].key] = t

\* C30 witness: the merge of a bucket raised and removed list and timer entry;
\* the bucket now holds the one input submitted since, with the third timer
\* started registered and asleep, a timer of another bucket being live too
C30_Witness ==
    \E k \in AllKeys :
        /\ Len(DebouncedSubmits(k)) = 2
        /\ HasNoText(submitLog[DebouncedSubmits(k)[1]])
        /\ k \in DOMAIN accumulated_messages
        /\ Len(accumulated_messages[k]) = 1
        /\ debounce_timers[k] = 3
        /\ tasks[3].pc = "sleep"
        /\ Cardinality(DOMAIN tasks) = 2

\* the step is a call of debounced_enqueue_message with delay 0
SubmitsImmediate ==
    /\ Len(submitLog') = Len(submitLog) + 1
    /\ submitLog'[Len(submitLog')].delay = 0

\* C31: a submit with delay 0 changes nothing of the debounce state: the
\* pending lists of all buckets, its own included, the registered timers and
\* the timer tasks, with their deadlines and the puts they are suspended in,
\* are as before, and no timer is cancelled; the step only offers the message
\* to the queue of its channel.
C31_DelayZeroLeavesBuckets ==
    [][SubmitsImmediate =>
           /\ UNCHANGED <<accumulated_messages, debounce_timers, tasks, taskNext,
                          cancelledAt, now>>
           /\ \A ch \in DOMAIN message_queues :
                  message_queues[ch].putters \subseteq message_queues'[ch].putters
           /\ LET m == submitLog'[Len(submitLog')].message IN
              \/ /\ Len(enqLog'[m.channel]) = Len(enqLog[m.channel]) + 1
                 /\ enqLog'[m.channel][Len(enqLog'[m.channel])].job = JobOf(m)
              \/ /\ UNCHANGED enqLog
                 /\ \E p \in message_queues'[m.channel].putters
                            \ message_queues[m.channel].putters : p.job = JobOf(m)]_vars

\* C31 witness: an input submitted with delay 1 at time 0 is still pending,
\* its timer still sleeps with the deadline 1, while an input of the same
\* bucket submitted with delay 0 at time 1 is already in the channel queue
C31_Witness ==
    \E k \in DOMAIN accumulated_messages \cap DOMAIN debounce_timers :
        /\ Len(submitLog) >= 2
        /\ submitLog[1].key = k /\ submitLog[1].delay = 1 /\ submitLog[1].time = 0
        /\ submitLog[2].key = k /\ submitLog[2].delay = 0 /\ submitLog[2].time = 1
        /\ MessageIds(accumulated_messages[k]) = <<1>>
        /\ debounce_timers[k] \in DOMAIN tasks
        /\ tasks[debounce_timers[k]].pc = "sleep"
        /\ tasks[debounce_timers[k]].deadline = 1
        /\ \E f \in ForwardsOf(2) :
               /\ enqLog[f[1]][f[2]].kind = "immediate"
               /\ message_queues[f[1]].items = <<JobOf(submitLog[2].message)>>

\* Bursts of inputs whose texts have leading and trailing whitespace, none, or
\* whitespace only.
NextBurstTrim == NextBurstOf({<<" ", "a", "\t">>, <<"b">>, <<" ">>})

SpecBurstTrim == Init /\ [][NextBurstTrim]_vars

\* the positions of the characters of a text that are not whitespace
InkPositions(text) == {i \in 1..Len(text) : text[i] \notin Whitespace}

\* a text without the whitespace before its first and after its last
\* character that is not whitespace; empty if it has no such character
Trimmed(text) ==
    IF InkPositions(text) = {} THEN <<>>
    ELSE LET first == CHOOSE i \in InkPositions(text) : \A j \in InkPositions(text) : i <= j
             last == CHOOSE i \in InkPositions(text) : \A j \in InkPositions(text) : j <= i
         IN SubSeq(text, first, last)

\* the lines expected of a job merged from inputs with these texts
ExpectedLines(texts) ==
    SelectSeq([i \in 1..Len(texts) |-> Trimmed(texts[i])], LAMBDA line : line # <<>>)

\* the lines of a text, split at its newlines
RECURSIVE SplitLines(_)
SplitLines(text) ==
    IF \A i \in 1..Len(text) : text[i] # "\n" THEN <<text>>
    ELSE LET n == CHOOSE i \in 1..Len(text) :
                      text[i] = "\n" /\ \A j \in 1..(i - 1) : text[j] # "\n"
         IN <<SubSeq(text, 1, n - 1)>> \o SplitLines(SubSeq(text, n + 1, Len(text)))

\* the texts of the inputs a forwarded job was made of, in arrival order
PartTexts(entry) ==
    [j \in 1..Len(entry.parts) |-> submitLog[SubmitOf(entry.parts[j])].message.text]

\* the entry a step appends to the log of channel ch
NewEntry(ch) == enqLog'[ch][Len(enqLog'[ch])]

\* C37: the text of every forwarded merged job, split at its newlines, is the
\* sequence, in arrival order, of the trimmed texts of those inputs it was
\* merged from whose trimmed text is not empty: an input of whitespace only
\* gives no line and no separator, no line begins or ends with whitespace;
\* and the inputs a job is merged from are exactly those pending in the
\* bucket when it is forwarded.
C37_MergedTextComposition ==
    /\ [](\A ch \in ChannelIds : \A i \in 1..Len(enqLog[ch]) :
              enqLog[ch][i].kind = "merged" =>
                  /\ ExpectedLines(PartTexts(enqLog[ch][i])) # <<>>
                  /\ SplitLines(enqLog[ch][i].job.message.text) =
                         ExpectedLines(PartTexts(enqLog[ch][i])))
    /\ [][\A ch \in ChannelIds :
              Len(enqLog'[ch]) > Len(enqLog[ch]) /\ NewEntry(ch).kind = "merged" =>
                  NewEntry(ch).parts = MessageIds(accumulated_messages[NewEntry(ch).key])]_vars

\* C37 witness: a job merged from the inputs " ", " a\t", "b", in this order,
\* was forwarded with the text "a\nb"
C37_Witness ==
    \E ch \in ChannelIds : \E i \in 1..Len(enqLog[ch]) :
        /\ enqLog[ch][i].kind = "merged"
        /\ PartTexts(enqLog[ch][i]) = <<<<" ">>, <<" ", "a", "\t">>, <<"b">>>>
        /\ enqLog[ch][i].job.message.text = <<"a", "\n", "b">>

(***************************************************************************)
(* Orchestrator job queue, pool and status broadcast.                      *)
(*                                                                         *)
(* pc of an orchestrator_worker: "get" in orchestrator_queue.get();        *)
(* "lock1"/"lock2" waiting for _status_update_lock in the update before /  *)
(* after the job; "sink1"/"sink2" in client.users_profile_set, holding the *)
(* lock; "run" in orchestrator_func.                                       *)
(***************************************************************************)
\* enqueue_orchestrator_job(job): await orchestrator_queue.put(job)
EnqueueOrchestratorJob ==
    /\ orchNext < MaxOrchJobs
    /\ orchNext' = orchNext + 1
    /\ IF QueueFull(orchestrator_queue)
       THEN /\ orchestrator_queue' = QueueSuspendPut(orchestrator_queue, orchNext + 1)
            /\ UNCHANGED orchEnqLog
       ELSE /\ orchestrator_queue' = QueuePutNowait(orchestrator_queue, orchNext + 1)
            /\ orchEnqLog' = Append(orchEnqLog, orchNext + 1)
    /\ UNCHANGED <<orchestrator_workers, num_workers, active_orchestrator_workers,
                   status_update_lock, statusLog, orchDeqLog, orchInvLog, sinkRaised>>
    /\ UNCHANGED <<memVars, chanVars, debVars>>

\* a producer suspended in orchestrator_queue.put resumes once a slot is free
OrchestratorPutResume(job) ==
    /\ job \in orchestrator_queue.putters
    /\ ~QueueFull(orchestrator_queue)
    /\ orchestrator_queue' =
           [QueuePutNowait(orchestrator_queue, job) EXCEPT !.putters = @ \ {job}]
    /\ orchEnqLog' = Append(orchEnqLog, job)
    /\ UNCHANGED <<orchestrator_workers, num_workers, active_orchestrator_workers,
                   status_update_lock, orchNext, statusLog, orchDeqLog, orchInvLog, sinkRaised>>
    /\ UNCHANGED <<memVars, chanVars, debVars>>

\* start_orchestrator_worker: num_workers orchestrator_worker tasks are created
StartOrchestratorWorker(n) ==
    /\ orchestrator_workers = <<>>
    /\ num_workers' = n
    /\ orchestrator_workers' =
           [w \in 1..n |-> [pc |-> "get", job |-> 0, is_busy |-> FALSE]]
    /\ UNCHANGED <<orchestrator_queue, active_orchestrator_workers,
                   status_update_lock, orchNext, statusLog,
                   orchEnqLog, orchDeqLog, orchInvLog, sinkRaised>>
    /\ UNCHANGED <<memVars, chanVars, debVars>>

\* a mutant of IsBusy: busy as soon as any worker is active
IsBusyAny(active_workers) == active_workers >= 1

\* update_bot_status: is_busy = active_workers >= num_workers
IsBusy(active_workers) == active_workers >= num_workers

\* the workers, other than w, that have incremented the counter for their
\* job and not yet decremented it
OtherActive(w) ==
    {v \in DOMAIN orchestrator_workers \ {w} :
        orchestrator_workers[v].pc \in {"lock1", "sink1", "run"}}

\* the workers, other than w, inside orchestrator_func
OtherRunning(w) ==
    {v \in DOMAIN orchestrator_workers \ {w} : orchestrator_workers[v].pc = "run"}

\* what the history records of a sink call by worker w in the update of
\* `phase` (1 before the job, 2 after it): the status sent, the counter read,
\* and at that instant the number of jobs counted and of orchestrator_func
\* invocations in flight
StatusEntry(w, phase, active_workers) ==
    [worker |-> w, phase |-> phase,
     status |-> IF IsBusy(active_workers) THEN "busy" ELSE "idle",
     active_workers |-> active_workers,
     counted |-> Cardinality(OtherActive(w)) + (IF phase = 1 THEN 1 ELSE 0),
     running |-> Cardinality(OtherRunning(w))]

\* update_bot_status with the lock acquired by w: the counter is read, is_busy
\* computed and client.users_profile_set called; w is suspended in the call
LockedUpdate(w, phase, job, active_workers) ==
    /\ orchestrator_workers' = [orchestrator_workers EXCEPT
           ![w] = [pc |-> IF phase = 1 THEN "sink1" ELSE "sink2", job |-> job,
                   is_busy |-> IsBusy(active_workers)]]
    /\ statusLog' = Append(statusLog, StatusEntry(w, phase, active_workers))

\* a mutant of UpdateBotStatus: the lock is not taken
UpdateBotStatusNoLock(w, phase, job, active_workers) ==
    /\ LockedUpdate(w, phase, job, active_workers)
    /\ UNCHANGED status_update_lock

\* a mutant of UpdateBotStatus: the sink is called only when the status differs
\* from the one sent last
UpdateBotStatusOnChange(w, phase, job, active_workers) ==
    IF /\ statusLog # <<>>
       /\ statusLog[Len(statusLog)].status = (IF IsBusy(active_workers) THEN "busy" ELSE "idle")
    THEN /\ orchestrator_workers' = [orchestrator_workers EXCEPT
                ![w] = [pc |-> IF phase = 1 THEN "run" ELSE "get", job |-> job,
                        is_busy |-> FALSE]]
         /\ UNCHANGED <<status_update_lock, statusLog>>
    ELSE IF status_update_lock.holder = 0 /\ status_update_lock.waiters = <<>>
    THEN /\ status_update_lock' = [status_update_lock EXCEPT !.holder = w]
         /\ LockedUpdate(w, phase, job, active_workers)
    ELSE /\ status_update_lock' = [status_update_lock EXCEPT !.waiters = Append(@, w)]
         /\ orchestrator_workers' = [orchestrator_workers EXCEPT
                ![w] = [pc |-> IF phase = 1 THEN "lock1" ELSE "lock2", job |-> job,
                        is_busy |-> FALSE]]
         /\ UNCHANGED statusLog

\* await update_bot_status() by worker w: async with _status_update_lock is
\* entered at once when the lock is free and nobody waits for it; otherwise w
\* queues up for the lock
UpdateBotStatus(w, phase, job, active_workers) ==
    IF status_update_lock.holder = 0 /\ status_update_lock.waiters = <<>>
    THEN /\ status_update_lock' = [status_update_lock EXCEPT !.holder = w]
         /\ LockedUpdate(w, phase, job, active_workers)
    ELSE /\ status_update_lock' = [status_update_lock EXCEPT !.waiters = Append(@, w)]
         /\ orchestrator_workers' = [orchestrator_workers EXCEPT
                ![w] = [pc |-> IF phase = 1 THEN "lock1" ELSE "lock2", job |-> job,
                        is_busy |-> FALSE]]
         /\ UNCHANGED statusLog

\* orchestrator_worker: job = await orchestrator_queue.get();
\* _active_orchestrator_workers += 1; await update_bot_status() begins
OrchestratorWorkerGet(w) ==
    /\ w \in DOMAIN orchestrator_workers
    /\ orchestrator_workers[w].pc = "get"
    /\ orchestrator_queue.items # <<>>
    /\ orchestrator_queue' = QueueAfterGet(orchestrator_queue)
    /\ active_orchestrator_workers' = active_orchestrator_workers + 1
    /\ orchDeqLog' = Append(orchDeqLog, QueueGetItem(orchestrator_queue))
    /\ UpdateBotStatus(w, 1, QueueGetItem(orchestrator_queue),
                       active_orchestrator_workers + 1)
    /\ UNCHANGED <<num_workers, orchNext, orchEnqLog, orchInvLog, sinkRaised>>
    /\ UNCHANGED <<memVars, chanVars, debVars>>

\* the lock is released to its first waiter, which goes on in update_bot_status
LockGranted(w) ==
    /\ status_update_lock.holder = 0
    /\ status_update_lock.waiters # <<>>
    /\ Head(status_update_lock.waiters) = w
    /\ status_update_lock' = [holder |-> w, waiters |-> Tail(status_update_lock.waiters)]
    /\ LockedUpdate(w, IF orchestrator_workers[w].pc = "lock1" THEN 1 ELSE 2,
                    orchestrator_workers[w].job, active_orchestrator_workers)
    /\ UNCHANGED <<orchestrator_queue, num_workers, active_orchestrator_workers, orchNext,
                   orchEnqLog, orchDeqLog, orchInvLog, sinkRaised>>
    /\ UNCHANGED <<memVars, chanVars, debVars>>

\* the history after the sink call of worker w ended with this outcome
SinkOutcomeLogged(w, outcome) ==
    IF outcome = "raised"
    THEN sinkRaised \cup {IF orchestrator_workers[w].pc = "sink1" THEN 1 ELSE 2}
    ELSE sinkRaised

\* a mutant of SinkReturns: an exception of the sink call before the job is
\* not caught in update_bot_status; it reaches the except clause of the worker,
\* which goes to its finally clause without invoking orchestrator_func
SinkReturnsPropagates(w, outcome) ==
    /\ w \in DOMAIN orchestrator_workers
    /\ orchestrator_workers[w].pc \in {"sink1", "sink2"}
    /\ sinkRaised' = SinkOutcomeLogged(w, outcome)
    /\ IF orchestrator_workers[w].pc = "sink1" /\ outcome = "raised"
       THEN /\ active_orchestrator_workers' = active_orchestrator_workers - 1
            /\ orchestrator_queue' = QueueTaskDone(orchestrator_queue)
            /\ status_update_lock' =
                   [holder |-> 0, waiters |-> Append(status_update_lock.waiters, w)]
            /\ orchestrator_workers' = [orchestrator_workers EXCEPT
                   ![w] = [pc |-> "lock2", job |-> 0, is_busy |-> FALSE]]
            /\ UNCHANGED orchInvLog
       ELSE /\ status_update_lock' = [status_update_lock EXCEPT !.holder = 0]
            /\ orchestrator_workers' = [orchestrator_workers EXCEPT
                   ![w] = IF @.pc = "sink1"
                          THEN [@ EXCEPT !.pc = "run"]
                          ELSE [pc |-> "get", job |-> 0, is_busy |-> FALSE]]
            /\ orchInvLog' = IF orchestrator_workers[w].pc = "sink1"
                             THEN Append(orchInvLog, orchestrator_workers[w].job)
                             ELSE orchInvLog
            /\ UNCHANGED <<orchestrator_queue, active_orchestrator_workers>>
    /\ UNCHANGED <<num_workers, orchNext, statusLog, orchEnqLog, orchDeqLog>>
    /\ UNCHANGED <<memVars, chanVars, debVars>>

\* client.users_profile_set returns or raises (the exception is logged inside
\* update_bot_status); the lock is released.  Before the job the worker goes on
\* to await orchestrator_func(job, client); after it, back to get()
SinkReturns(w, outcome) ==
    /\ w \in DOMAIN orchestrator_workers
    /\ orchestrator_workers[w].pc \in {"sink1", "sink2"}
    /\ status_update_lock' = [status_update_lock EXCEPT !.holder = 0]
    /\ orchestrator_workers' = [orchestrator_workers EXCEPT
           ![w] = IF @.pc = "sink1"
                  THEN [@ EXCEPT !.pc = "run"]
                  ELSE [pc |-> "get", job |-> 0, is_busy |-> FALSE]]
    /\ orchInvLog' = IF orchestrator_workers[w].pc = "sink1"
                     THEN Append(orchInvLog, orchestrator_workers[w].job)
                     ELSE orchInvLog
    /\ sinkRaised' = SinkOutcomeLogged(w, outcome)
    /\ UNCHANGED <<orchestrator_queue, num_workers, active_orchestrator_workers,
                   orchNext, statusLog, orchEnqLog, orchDeqLog>>
    /\ UNCHANGED <<memVars, chanVars, debVars>>

\* a mutant of OrchestratorFuncEnds: the counter is not decremented
OrchestratorFuncEndsNoDecrement(w, outcome) ==
    /\ w \in DOMAIN orchestrator_workers
    /\ orchestrator_workers[w].pc = "run"
    /\ orchestrator_queue' = QueueTaskDone(orchestrator_queue)
    /\ UpdateBotStatus(w, 2, 0, active_orchestrator_workers)
    /\ UNCHANGED <<num_workers, active_orchestrator_workers, orchNext,
                   orchEnqLog, orchDeqLog, orchInvLog, sinkRaised>>
    /\ UNCHANGED <<memVars, chanVars, debVars>>

\* a mutant of OrchestratorFuncEnds: orchestrator_queue.task_done() is left out
OrchestratorFuncEndsNoTaskDone(w, outcome) ==
    /\ w \in DOMAIN orchestrator_workers
    /\ orchestrator_workers[w].pc = "run"
    /\ active_orchestrator_workers' = active_orchestrator_workers - 1
    /\ UpdateBotStatus(w, 2, 0, active_orchestrator_workers - 1)
    /\ UNCHANGED <<orchestrator_queue, num_workers, orchNext, orchEnqLog, orchDeqLog,
                   orchInvLog, sinkRaised>>
    /\ UNCHANGED <<memVars, chanVars, debVars>>

\* a mutant of OrchestratorFuncEnds: the decrement is not in a finally clause,
\* so a job whose orchestrator_func raised is not uncounted
OrchestratorFuncEndsRaiseLeaks(w, outcome) ==
    /\ w \in DOMAIN orchestrator_workers
    /\ orchestrator_workers[w].pc = "run"
    /\ active_orchestrator_workers' =
           IF outcome = "raised" THEN active_orchestrator_workers
           ELSE active_orchestrator_workers - 1
    /\ orchestrator_queue' = QueueTaskDone(orchestrator_queue)
    /\ UpdateBotStatus(w, 2, 0, active_orchestrator_workers')
    /\ UNCHANGED <<num_workers, orchNext, orchEnqLog, orchDeqLog, orchInvLog, sinkRaised>>
    /\ UNCHANGED <<memVars, chanVars, debVars>>

\* orchestrator_func returns or raises (the exception is logged); finally
\* _active_orchestrator_workers -= 1; orchestrator_queue.task_done();
\* await update_bot_status() begins
OrchestratorFuncEnds(w, outcome) ==
    /\ w \in DOMAIN orchestrator_workers
    /\ orchestrator_workers[w].pc = "run"
    /\ active_orchestrator_workers' = active_orchestrator_workers - 1
    /\ orchestrator_queue' = QueueTaskDone(orchestrator_queue)
    /\ UpdateBotStatus(w, 2, 0, active_orchestrator_workers - 1)
    /\ UNCHANGED <<num_workers, orchNext, orchEnqLog, orchDeqLog, orchInvLog, sinkRaised>>
    /\ UNCHANGED <<memVars, chanVars, debVars>>

NextOrch ==
    \/ EnqueueOrchestratorJob
    \/ \E job \in 1..MaxOrchJobs : OrchestratorPutResume(job)
    \/ \E n \in 1..MaxNumWorkers : StartOrchestratorWorker(n)
    \/ \E w \in 1..MaxNumWorkers : OrchestratorWorkerGet(w)
    \/ \E w \in 1..MaxNumWorkers : LockGranted(w)
    \/ \E w \in 1..MaxNumWorkers, outcome \in Outcomes : SinkReturns(w, outcome)
    \/ \E w \in 1..MaxNumWorkers, outcome \in Outcomes : OrchestratorFuncEnds(w, outcome)

SpecOrch == Init /\ [][NextOrch]_vars

\* The event loop runs every task that is ready, and the status sink and the
\* orchestrator function are taken to end every call.
FairSpecOrch ==
    /\ SpecOrch
    /\ \A w \in 1..MaxNumWorkers :
        /\ WF_vars(OrchestratorWorkerGet(w))
        /\ WF_vars(LockGranted(w))
        /\ WF_vars(\E outcome \in Outcomes : SinkReturns(w, outcome))
        /\ WF_vars(\E outcome \in Outcomes : OrchestratorFuncEnds(w, outcome))

\* C4 as claimed: every status pushed to the sink is "busy" if and only if
\* num_workers invocations of the orchestrator function are unfinished at the
\* instant of the push.
C4_BusyIffAllInvocationsRunning ==
    \A i \in 1..Len(statusLog) :
        statusLog[i].status = "busy" <=> statusLog[i].running = num_workers

\* C4 amended: every status pushed to the sink is "busy" if and only if
\* num_workers jobs are counted as active at the instant of the push, a job
\* being active from the increment that precedes its start-of-job broadcast
\* to the decrement that follows its orchestrator-function invocation; so the
\* status is never "busy" while fewer than num_workers jobs are active.
C4_BusyIffAllWorkersActive ==
    \A i \in 1..Len(statusLog) :
        /\ statusLog[i].status = "busy" <=> statusLog[i].counted = num_workers
        /\ statusLog[i].counted <= num_workers

\* C4 witness: a "busy" status was pushed, and later an "idle" one
C4_Witness ==
    \E i, j \in 1..Len(statusLog) :
        /\ i < j
        /\ statusLog[i].status = "busy"
        /\ statusLog[j].status = "idle"

\* no job is dequeued, counted, running or being broadcast, none is waiting
Quiescent ==
    /\ orchestrator_workers # <<>>
    /\ \A w \in DOMAIN orchestrator_workers : orchestrator_workers[w].pc = "get"
    /\ orchestrator_queue.items = <<>>
    /\ orchestrator_queue.putters = {}

\* every broadcast that follows a job sends "idle"
PostJobStatusIdle ==
    /\ \A w \in DOMAIN orchestrator_workers :
           orchestrator_workers[w].pc = "sink2" => ~orchestrator_workers[w].is_busy
    /\ \A i \in 1..Len(statusLog) : statusLog[i].phase = 2 => statusLog[i].status = "idle"

\* once all is finished the last status pushed is "idle"
LastStatusIdle ==
    Quiescent /\ statusLog # <<>> => statusLog[Len(statusLog)].status = "idle"

\* C5: a worker that finished a job pushes "idle" to the sink: at once, or
\* after it got the guard it waits for; and once every submitted job is
\* finished and every broadcast made, the last status pushed is "idle".
C5_StatusReturnsToIdle ==
    /\ [](PostJobStatusIdle /\ LastStatusIdle)
    /\ \A w \in 1..MaxNumWorkers :
           (w \in DOMAIN orchestrator_workers /\ orchestrator_workers[w].pc = "lock2")
             ~> (w \in DOMAIN orchestrator_workers /\ orchestrator_workers[w].pc = "sink2")

\* C5 witness: all jobs are finished after a "busy" status had been pushed and
\* a worker had waited for the guard with its post-job broadcast
C5_Witness ==
    /\ Quiescent
    /\ orchNext = MaxOrchJobs
    /\ \E i, j \in 1..Len(statusLog) :
        /\ i < j
        /\ statusLog[i].status = "busy"
        /\ statusLog[j].phase = 2
        /\ statusLog[j].worker # statusLog[j - 1].worker
        /\ statusLog[j - 1].phase = 1

\* C14: the active-worker counter is at least 0 and at most num_workers in
\* every reachable state.
C14_ActiveCountBounded ==
    /\ 0 <= active_orchestrator_workers
    /\ active_orchestrator_workers <= num_workers

\* C14 witness: both workers of a pool of two are counted active, after an
\* earlier job had ended and the sink call that followed it had failed
C14_Witness ==
    /\ num_workers = MaxNumWorkers
    /\ active_orchestrator_workers = num_workers
    /\ Len(orchDeqLog) = 3
    /\ 2 \in sinkRaised

\* the workers that hold a dequeued job and have not finished the broadcast
\* that precedes the job
BeforeJob == {w \in DOMAIN orchestrator_workers :
                 orchestrator_workers[w].pc \in {"lock1", "sink1"}}

\* the workers whose job is counted in the active count
CountedWorkers == {w \in DOMAIN orchestrator_workers :
                      orchestrator_workers[w].pc \in {"lock1", "sink1", "run"}}

\* C18: whatever the outcome of the status-sink calls, the guard is held only
\* by a worker inside a sink call (a call that ended, failed or not, released
\* it); every dequeued job whose start-of-job broadcast is over, failed or
\* not, was passed to the orchestrator function, by the worker that holds it
\* or before; the active count is the number of jobs dequeued and not yet
\* ended; and a worker whose broadcast is over is in the function or back in
\* get(), so the producers' puts go on being served.
C18_SinkFailureNonFatal ==
    /\ \A w \in DOMAIN orchestrator_workers :
           orchestrator_workers[w].pc \in {"sink1", "sink2"} <=> status_update_lock.holder = w
    /\ status_update_lock.holder # 0 => status_update_lock.holder \in DOMAIN orchestrator_workers
    /\ \A i \in 1..Len(orchDeqLog) :
           (\A w \in BeforeJob : orchestrator_workers[w].job # orchDeqLog[i])
               => \E j \in 1..Len(orchInvLog) : orchInvLog[j] = orchDeqLog[i]
    /\ active_orchestrator_workers = Cardinality(CountedWorkers)
    /\ \A w \in DOMAIN orchestrator_workers :
           orchestrator_workers[w].pc \in {"get", "lock1", "sink1", "run", "lock2", "sink2"}

\* C18 witness: a sink call before a job failed and so did one after a job;
\* every job was passed to the orchestrator function, all jobs have ended, the
\* count is 0 and the guard is free
C18_Witness ==
    /\ Quiescent
    /\ orchNext = MaxOrchJobs
    /\ Len(orchInvLog) = MaxOrchJobs
    /\ active_orchestrator_workers = 0
    /\ status_update_lock.holder = 0
    /\ sinkRaised = {1, 2}

\* orchestrator_func invocations in flight
OrchInFlight ==
    Cardinality({w \in DOMAIN orchestrator_workers : orchestrator_workers[w].pc = "run"})

\* C20: at most num_workers invocations of the orchestrator function are in
\* flight, and the jobs are dequeued from the orchestrator queue in the order
\* their enqueues completed.
C20_PoolBoundedAndFifo ==
    /\ OrchInFlight <= num_workers
    /\ Len(orchestrator_workers) = num_workers
    /\ IsPrefix(orchDeqLog, orchEnqLog)

\* C20 witness: three jobs were dequeued in the order 1, 2, 3, the third by a
\* worker that had finished an earlier one, and two invocations are in flight
C20_Witness ==
    /\ orchDeqLog = <<1, 2, 3>>
    /\ num_workers = 2
    /\ OrchInFlight = 2

\* the position of worker w in its loop
PcOf(w) == orchestrator_workers[w].pc

\* this step takes worker w from one position of its loop to another
Moves(w) == orchestrator_workers'[w].pc # orchestrator_workers[w].pc

\* this step makes a call of the status sink
SinkCalled == statusLog' # statusLog

InSink == {w \in DOMAIN orchestrator_workers : PcOf(w) \in {"sink1", "sink2"}}

HoldingJob == {w \in DOMAIN orchestrator_workers : PcOf(w) # "get"}

\* C24 as claimed: a dequeued job is not marked complete (task_done) before its
\* post-job status broadcast has finished.
C24_CompleteAfterPostJobBroadcast ==
    orchestrator_queue.unfinished >=
        Len(orchestrator_queue.items) + Cardinality(HoldingJob)

\* the worker w made this step's sink call, in the update of this phase
SinkCalledBy(w, phase) ==
    /\ statusLog' = Append(statusLog, statusLog'[Len(statusLog')])
    /\ statusLog'[Len(statusLog')].worker = w
    /\ statusLog'[Len(statusLog')].phase = phase

\* C24 amended: for each job a worker performs, in this order, dequeue,
\* increment of the active count, status broadcast, invocation of the
\* orchestrator function, decrement of the active count, marking the dequeue
\* complete, and then a second status broadcast; the job is marked complete
\* before its post-job broadcast starts, so the jobs not yet marked complete
\* are those in the queue and those between dequeue and the end of their
\* orchestrator-function invocation.
C24_StepOrder ==
    /\ [](orchestrator_queue.unfinished =
              Len(orchestrator_queue.items) + Cardinality(CountedWorkers))
    /\ [][\A w \in DOMAIN orchestrator_workers :
            Moves(w) =>
              LET q == orchestrator_workers'[w].pc IN
              /\ PcOf(w) = "get" =>
                     /\ q \in {"lock1", "sink1"}
                     /\ orchDeqLog' = Append(orchDeqLog, orchestrator_workers'[w].job)
                     /\ active_orchestrator_workers' = active_orchestrator_workers + 1
              /\ PcOf(w) = "lock1" => q = "sink1"
              /\ q = "sink1" => SinkCalledBy(w, 1) /\ UNCHANGED orchInvLog
              /\ PcOf(w) = "sink1" =>
                     /\ q = "run"
                     /\ orchInvLog' = Append(orchInvLog, orchestrator_workers[w].job)
                     /\ UNCHANGED <<active_orchestrator_workers, statusLog>>
              /\ PcOf(w) = "run" =>
                     /\ q \in {"lock2", "sink2"}
                     /\ active_orchestrator_workers' = active_orchestrator_workers - 1
                     /\ orchestrator_queue'.unfinished = orchestrator_queue.unfinished - 1
              /\ PcOf(w) = "lock2" => q = "sink2"
              /\ q = "sink2" => SinkCalledBy(w, 2)
              /\ PcOf(w) = "sink2" =>
                     /\ q = "get"
                     /\ UNCHANGED <<orchestrator_queue, active_orchestrator_workers,
                                    statusLog>>]_vars

\* C24 witness: the post-job broadcast of the only job offered is in flight,
\* and the job is already marked complete
C24_Witness ==
    \E w \in DOMAIN orchestrator_workers :
        /\ PcOf(w) = "sink2"
        /\ orchDeqLog = <<1>>
        /\ orchInvLog = <<1>>
        /\ orchestrator_queue.unfinished = 0
        /\ active_orchestrator_workers = 0

\* the sink calls made so far in the update of this phase
PhaseCalls(phase) ==
    Cardinality({i \in 1..Len(statusLog) : statusLog[i].phase = phase})

\* the workers at one of these positions of the loop
WorkersAt(pcs) == {w \in DOMAIN orchestrator_workers : PcOf(w) \in pcs}

\* C25: each dequeued job causes exactly two status-sink calls: one after the
\* increment, made as soon as the worker has the guard, and one after the
\* decrement, which follows the end of the orchestrator function whatever its
\* outcome; so once no job is in progress the sink was called twice per
\* dequeued job, also where the status sent did not change.
C25_TwoBroadcastsPerJob ==
    /\ [](/\ PhaseCalls(1) = Len(orchDeqLog) - Cardinality(WorkersAt({"lock1"}))
          /\ PhaseCalls(2) = Len(orchDeqLog)
                 - Cardinality(WorkersAt({"lock1", "sink1", "run", "lock2"}))
          /\ Quiescent => Len(statusLog) = 2 * Len(orchDeqLog))
    /\ [][\A w \in DOMAIN orchestrator_workers :
             PcOf(w) = "run" /\ Moves(w) =>
                 orchestrator_workers'[w].pc \in {"lock2", "sink2"}]_vars

\* C25 witness: three jobs were done by a pool of two, six sink calls were
\* made, and the first job's two calls both sent "idle"
C25_Witness ==
    /\ Quiescent
    /\ num_workers = 2
    /\ Len(orchDeqLog) = MaxOrchJobs
    /\ Len(statusLog) = 2 * MaxOrchJobs
    /\ statusLog[1].status = "idle"
    /\ statusLog[2].status = "idle"
    /\ statusLog[2].phase = 2

\* C32: the orchestrator function is invoked for a job only in the step in
\* which the sink call of the job's start-of-job broadcast ends, made by the
\* worker that holds the guard; and while a worker is inside a sink call,
\* every step of another worker is a dequeue or the end of an orchestrator
\* function, after which that worker waits for the guard: none enters a sink
\* call or the orchestrator function, so as long as the call does not return
\* no job starts.
C32_SinkCallGatesJobs ==
    [][/\ orchInvLog' # orchInvLog =>
              \E w \in InSink :
                  /\ PcOf(w) = "sink1"
                  /\ status_update_lock.holder = w
                  /\ orchestrator_workers'[w].pc = "run"
                  /\ orchInvLog' = Append(orchInvLog, orchestrator_workers[w].job)
       /\ \A w \in InSink : \A v \in DOMAIN orchestrator_workers \ {w} :
              Moves(v) =>
                  /\ PcOf(v) \in {"get", "run"}
                  /\ orchestrator_workers'[v].pc \in {"lock1", "lock2"}
                  /\ orchestrator_workers'[w] = orchestrator_workers[w]
                  /\ UNCHANGED <<orchInvLog, statusLog>>]_vars

\* C32 witness: the sink call that follows a worker's job is pending; the
\* other worker holds a dequeued job and waits for the guard, and a third job
\* waits in the queue
C32_Witness ==
    \E w, v \in DOMAIN orchestrator_workers :
        /\ PcOf(w) = "sink2"
        /\ PcOf(v) = "lock1"
        /\ orchestrator_workers[v].job = 2
        /\ orchInvLog = <<1>>
        /\ Len(orchestrator_queue.items) = 1

\* no worker holds a job that is counted
NoJobInProgress == CountedWorkers = {}

\* C33: in every state the active count is the number of workers that have
\* incremented it for their job and not yet decremented it, so it is 0
\* whenever no job is in progress; and the step that ends an orchestrator
\* function, whatever its outcome, decrements the count by exactly 1.
C33_ExactActiveCount ==
    /\ [](/\ active_orchestrator_workers = Cardinality(CountedWorkers)
          /\ NoJobInProgress => active_orchestrator_workers = 0)
    /\ [][\A w \in DOMAIN orchestrator_workers :
             PcOf(w) = "run" /\ Moves(w) =>
                 active_orchestrator_workers' = active_orchestrator_workers - 1]_vars

\* C33 witness: the count had reached 2 ("busy" was sent), three jobs were
\* run, and with no job in progress the count is 0 again
C33_Witness ==
    /\ NoJobInProgress
    /\ Len(orchInvLog) = MaxOrchJobs
    /\ orchestrator_queue.items = <<>>
    /\ active_orchestrator_workers = 0
    /\ \E i \in 1..Len(statusLog) : statusLog[i].active_workers = 2

(***************************************************************************)
(* Sequential writer lane.                                                 *)
(***************************************************************************)
\* enqueue_memory_job(job): await memory_queue.put(job)
EnqueueMemoryJob ==
    /\ memNext < MaxMemJobs
    /\ memNext' = memNext + 1
    /\ LET job == memNext + 1 IN
         IF QueueFull(memory_queue)
         THEN /\ memory_queue' = QueueSuspendPut(memory_queue, job)
              /\ UNCHANGED memEnqLog
         ELSE /\ memory_queue' = QueuePutNowait(memory_queue, job)
              /\ memEnqLog' = Append(memEnqLog, job)
    /\ UNCHANGED <<memory_worker, memInvLog, memFinLog>>
    /\ UNCHANGED <<chanVars, orchVars, debVars>>

\* a producer suspended in memory_queue.put resumes once a slot is free
MemoryPutResume(job) ==
    /\ job \in memory_queue.putters
    /\ ~QueueFull(memory_queue)
    /\ memory_queue' = [QueuePutNowait(memory_queue, job) EXCEPT !.putters = @ \ {job}]
    /\ memEnqLog' = Append(memEnqLog, job)
    /\ UNCHANGED <<memory_worker, memNext, memInvLog, memFinLog>>
    /\ UNCHANGED <<chanVars, orchVars, debVars>>

\* start_memory_worker(memory_func): one memory_worker task is created
StartMemoryWorker ==
    /\ memory_worker.pc = "none"
    /\ memory_worker' = [pc |-> "get", job |-> 0]
    /\ UNCHANGED <<memory_queue, memNext, memEnqLog, memInvLog, memFinLog>>
    /\ UNCHANGED <<chanVars, orchVars, debVars>>

\* a mutant of MemoryWorkerGet: memory_func(job) is started but not awaited
MemoryWorkerGetNoAwait ==
    /\ memory_worker.pc = "get"
    /\ memory_queue.items # <<>>
    /\ memory_queue' = QueueTaskDone(QueueAfterGet(memory_queue))
    /\ memInvLog' = Append(memInvLog, QueueGetItem(memory_queue))
    /\ UNCHANGED <<memory_worker, memNext, memEnqLog, memFinLog>>
    /\ UNCHANGED <<chanVars, orchVars, debVars>>

\* memory_worker: job = await memory_queue.get(); await memory_func(job) begins
MemoryWorkerGet ==
    /\ memory_worker.pc = "get"
    /\ memory_queue.items # <<>>
    /\ memory_queue' = QueueAfterGet(memory_queue)
    /\ memory_worker' = [pc |-> "run", job |-> QueueGetItem(memory_queue)]
    /\ memInvLog' = Append(memInvLog, QueueGetItem(memory_queue))
    /\ UNCHANGED <<memNext, memEnqLog, memFinLog>>
    /\ UNCHANGED <<chanVars, orchVars, debVars>>

\* a mutant of MemoryWorkerDone: an exception of memory_func is not caught
\* and ends the memory_worker task
MemoryWorkerDoneDies(outcome) ==
    /\ memory_worker.pc = "run"
    /\ memory_queue' = QueueTaskDone(memory_queue)
    /\ memFinLog' = Append(memFinLog, <<memory_worker.job, outcome>>)
    /\ memory_worker' = [pc |-> IF outcome = "raised" THEN "dead" ELSE "get", job |-> 0]
    /\ UNCHANGED <<memNext, memEnqLog, memInvLog>>
    /\ UNCHANGED <<chanVars, orchVars, debVars>>

\* a mutant of MemoryWorkerDone: task_done() is not in a finally clause, so
\* it is skipped for a job whose memory_func raised
MemoryWorkerDoneSkipsOnRaise(outcome) ==
    /\ memory_worker.pc = "run"
    /\ memory_queue' = IF outcome = "raised" THEN memory_queue
                       ELSE QueueTaskDone(memory_queue)
    /\ memFinLog' = Append(memFinLog, <<memory_worker.job, outcome>>)
    /\ memory_worker' = [pc |-> "get", job |-> 0]
    /\ UNCHANGED <<memNext, memEnqLog, memInvLog>>
    /\ UNCHANGED <<chanVars, orchVars, debVars>>

\* memory_worker: memory_func(job) returns or raises (the exception is
\* logged); finally memory_queue.task_done(); the loop waits in get() again
MemoryWorkerDone(outcome) ==
    /\ memory_worker.pc = "run"
    /\ memory_queue' = QueueTaskDone(memory_queue)
    /\ memFinLog' = Append(memFinLog, <<memory_worker.job, outcome>>)
    /\ memory_worker' = [pc |-> "get", job |-> 0]
    /\ UNCHANGED <<memNext, memEnqLog, memInvLog>>
    /\ UNCHANGED <<chanVars, orchVars, debVars>>

NextMem ==
    \/ EnqueueMemoryJob
    \/ \E job \in 1..MaxMemJobs : MemoryPutResume(job)
    \/ StartMemoryWorker
    \/ MemoryWorkerGet
    \/ \E outcome \in Outcomes : MemoryWorkerDone(outcome)

SpecMem == Init /\ [][NextMem]_vars

\* number of memory_func invocations in flight
MemInFlight == Len(memInvLog) - Len(memFinLog)

\* C1: the writer function is invoked in the order the enqueues completed,
\* it has ended on every earlier job before it is invoked on the next one,
\* and at most one invocation is in flight in every reachable state.
C1_WriterLaneSequential ==
    /\ IsPrefix(memInvLog, memEnqLog)
    /\ IsPrefix([i \in 1..Len(memFinLog) |-> memFinLog[i][1]], memInvLog)
    /\ MemInFlight \in {0, 1}
    /\ MemInFlight = 1 <=> memory_worker.pc = "run"
    /\ memory_worker.pc = "run" => memory_worker.job = memInvLog[Len(memInvLog)]

\* C1 witness: two jobs have ended, one of them by raising, the third is being
\* written
C1_Witness ==
    /\ Len(memFinLog) = 2
    /\ memFinLog[1][2] = "raised"
    /\ memory_worker.pc = "run"
    /\ memory_worker.job = 3
(***************************************************************************)
(* The three lanes together: the producers of all queues and the workers   *)
(* of all pools on one event loop.                                         *)
(***************************************************************************)
\* the jobs offered so far, over all queues
LaneJobs == memNext + msgNext + orchNext

NextLanes ==
    \/ LaneJobs < MaxLaneJobs /\ EnqueueMemoryJob
    \/ LaneJobs < MaxLaneJobs /\ EnqueueOrchestratorJob
    \/ \E ch \in {"a", "a:b"} :
           LaneJobs < MaxLaneJobs /\ EnqueueMessage(ch, "c", <<"b">>)
    \/ \E job \in 1..MaxMemJobs : MemoryPutResume(job)
    \/ StartMemoryWorker
    \/ MemoryWorkerGet
    \/ \E outcome \in Outcomes : MemoryWorkerDone(outcome)
    \/ NextChanWorkers({1})
    \/ \E job \in 1..MaxOrchJobs : OrchestratorPutResume(job)
    \/ StartOrchestratorWorker(1)
    \/ OrchestratorWorkerGet(1)
    \/ \E outcome \in Outcomes : SinkReturns(1, outcome)
    \/ \E outcome \in Outcomes : OrchestratorFuncEnds(1, outcome)

SpecLanes == Init /\ [][NextLanes]_vars

\* The pools are started, the event loop runs every task that is ready, and
\* the injected functions and the status sink are taken to end every call.
FairSpecLanes ==
    /\ SpecLanes
    /\ WF_vars(StartMemoryWorker)
    /\ WF_vars(MemoryWorkerGet)
    /\ WF_vars(\E outcome \in Outcomes : MemoryWorkerDone(outcome))
    /\ WF_vars(\E job \in 1..MaxMemJobs : MemoryPutResume(job))
    /\ WF_vars(StartChannelWorkers(1))
    /\ WF_vars(MonitorScan)
    /\ WF_vars(\E cp \in AllPutters : ProducerPutResume(cp[1], cp[2]))
    /\ WF_vars(\E cw \in AllChannelWorkers : ChannelWorkerGet(cw[1], cw[2]))
    /\ WF_vars(\E cw \in AllChannelWorkers, outcome \in Outcomes :
                   ChannelWorkerDone(cw[1], cw[2], outcome))
    /\ WF_vars(StartOrchestratorWorker(1))
    /\ WF_vars(OrchestratorWorkerGet(1))
    /\ WF_vars(\E outcome \in Outcomes : SinkReturns(1, outcome))
    /\ WF_vars(\E outcome \in Outcomes : OrchestratorFuncEnds(1, outcome))
    /\ WF_vars(\E job \in 1..MaxOrchJobs : OrchestratorPutResume(job))

\* the writer function has ended on job j
MemProcessed(j) == \E i \in 1..Len(memFinLog) : memFinLog[i][1] = j

\* the message with this id was dequeued and its process_func call has ended
ChanProcessed(id) ==
    \E ch \in ChannelIds :
        /\ \E i \in 1..Len(deqLog[ch]) : deqLog[ch][i].message.id = id
        /\ \A w \in 1..Len(channel_workers[ch]) :
               channel_workers[ch][w].pc = "run" =>
                   channel_workers[ch][w].job.message.id # id

\* orchestrator job j was dequeued and passed to orchestrator_func, which ended
OrchProcessed(j) ==
    /\ \E i \in 1..Len(orchInvLog) : orchInvLog[i] = j
    /\ \A w \in DOMAIN orchestrator_workers : orchestrator_workers[w].job # j

\* every job offered so far, to whatever queue, has been processed
Drained ==
    /\ \A j \in 1..memNext : MemProcessed(j)
    /\ \A id \in 1..msgNext : ChanProcessed(id)
    /\ \A j \in 1..orchNext : OrchProcessed(j)

\* every worker task that was created is in its loop: waiting in get(), in the
\* injected function, or in the status update
WorkersAlive ==
    /\ memory_worker.pc \in {"none", "get", "run"}
    /\ \A ch \in ChannelIds : \A w \in 1..Len(channel_workers[ch]) :
           channel_workers[ch][w].pc \in {"get", "run"}
    /\ \A w \in DOMAIN orchestrator_workers :
           orchestrator_workers[w].pc \in {"get", "lock1", "sink1", "run", "lock2", "sink2"}

\* C11: whatever calls of the injected functions raise, every worker stays in
\* its loop, and every job offered to any queue, before or after the job
\* whose call raised, is dequeued and its call ends: again and again every
\* job offered so far has been processed.
C11_FailureIsolation ==
    /\ []WorkersAlive
    /\ []<>Drained

\* C11 witness: the writer function raised for job 1; job 2 of the same queue
\* was processed after it, and so was a job of a channel queue
C11_Witness ==
    /\ Len(memFinLog) = 2
    /\ memFinLog[1] = <<1, "raised">>
    /\ memFinLog[2][1] = 2
    /\ msgNext = 1
    /\ Drained

\* the elements of a sequence
Range(seq) == {seq[i] : i \in 1..Len(seq)}

\* P holds of every queue that exists: the two global ones and those of the
\* registry
EveryQueue(P(_)) ==
    /\ P(memory_queue)
    /\ P(orchestrator_queue)
    /\ \A ch \in DOMAIN message_queues : P(message_queues[ch])

\* the messages offered to enqueue_message that are in a queue, suspended in a
\* put, or dequeued
MessagesKept ==
    UNION {{job.message.id : job \in Range(message_queues[ch].items)}
              \cup {p.job.message.id : p \in message_queues[ch].putters}
              \cup {job.message.id : job \in Range(deqLog[ch])} : ch \in DOMAIN message_queues}

\* no job offered to a queue was dropped or rejected: it waits in the queue,
\* its producer is suspended in the put, or a worker dequeued it
NothingDropped ==
    /\ 1..memNext \subseteq
           Range(memory_queue.items) \cup memory_queue.putters \cup Range(memInvLog)
    /\ 1..orchNext \subseteq
           Range(orchestrator_queue.items) \cup orchestrator_queue.putters
               \cup Range(orchDeqLog)
    /\ 1..msgNext \subseteq MessagesKept

\* a step of queue q to queue r: a producer is suspended in put only when q is
\* full, and a suspended producer leaves the put only by appending its job
PutSuspendsAndResumes(q, r, JobOfPutter(_)) ==
    /\ \A p \in r.putters \ q.putters :
           Len(q.items) = maxsize /\ r.items = q.items
    /\ \A p \in q.putters \ r.putters :
           Len(q.items) < maxsize /\ r.items = Append(q.items, JobOfPutter(p))

NoPutters == EveryQueue(LAMBDA q : q.putters = {})

WithinCapacity == EveryQueue(LAMBDA q : Len(q.items) <= maxsize)

\* C12: no queue ever holds more than maxsize jobs; a put on a full queue
\* suspends the producer and leaves the queue as it is; the suspended
\* producer's job is appended once a dequeue has freed a slot, which always
\* comes; and every job offered is in its queue, with its suspended producer,
\* or was dequeued.
C12_Backpressure ==
    /\ []WithinCapacity
    /\ []NothingDropped
    /\ [][/\ PutSuspendsAndResumes(memory_queue, memory_queue', LAMBDA p : p)
          /\ PutSuspendsAndResumes(orchestrator_queue, orchestrator_queue', LAMBDA p : p)
          /\ \A ch \in DOMAIN message_queues :
                PutSuspendsAndResumes(message_queues[ch], message_queues'[ch],
                                      LAMBDA p : p.job)]_vars
    /\ []<>NoPutters

\* C12 witness: a producer was suspended on a full channel queue and its job
\* was appended after a worker had dequeued one; the queue is full again
C12_Witness ==
    \E ch \in DOMAIN message_queues :
        /\ Len(enqLog[ch]) = 3
        /\ enqLog[ch][3].waited
        /\ Len(deqLog[ch]) = 1
        /\ Len(message_queues[ch].items) = maxsize

\* no element occurs twice in the sequence
NoDuplicates(seq) == \A i, j \in 1..Len(seq) : seq[i] = seq[j] => i = j

\* the ids of the messages of a sequence of channel jobs
MessageIdsOf(jobs) == [i \in 1..Len(jobs) |-> jobs[i].message.id]

\* the ids of the messages dequeued from the queues of the registry, and of
\* those waiting in them or offered by a suspended producer
DequeuedMessages == UNION {Range(MessageIdsOf(deqLog[ch])) : ch \in ChannelIds}

WaitingMessages ==
    UNION {Range(MessageIdsOf(message_queues[ch].items))
              \cup {p.job.message.id : p \in message_queues[ch].putters} :
           ch \in DOMAIN message_queues}

\* the jobs held by the workers of each pool, one entry per worker
HeldByChannelWorkers ==
    {<<ch, w>> \in AllChannelWorkers : channel_workers[ch][w].pc = "run"}

HeldByOrchestratorWorkers ==
    {w \in DOMAIN orchestrator_workers : orchestrator_workers[w].job # 0}

\* C13: every job is dequeued at most once, so by one worker only, and passed
\* to the injected function at most once; a job that was dequeued is no longer
\* in its queue nor offered to it again, whether its call returned or raised;
\* two workers never hold the same job.
C13_AtMostOnce ==
    /\ NoDuplicates(memInvLog)
    /\ NoDuplicates(memEnqLog)
    /\ NoDuplicates(orchDeqLog)
    /\ NoDuplicates(orchInvLog)
    /\ NoDuplicates(orchEnqLog)
    /\ \A ch \in ChannelIds :
           /\ NoDuplicates(MessageIdsOf(deqLog[ch]))
           /\ NoDuplicates(MessageIdsOf(EnqJobs(ch)))
           /\ \A c2 \in ChannelIds \ {ch} :
                  Range(MessageIdsOf(deqLog[ch])) \cap Range(MessageIdsOf(deqLog[c2])) = {}
    /\ Range(orchInvLog) \subseteq Range(orchDeqLog)
    /\ Range(memInvLog) \cap (Range(memory_queue.items) \cup memory_queue.putters) = {}
    /\ Range(orchDeqLog)
           \cap (Range(orchestrator_queue.items) \cup orchestrator_queue.putters) = {}
    /\ DequeuedMessages \cap WaitingMessages = {}
    /\ \A i \in 1..Len(memFinLog) :
           /\ Cardinality({k \in 1..Len(memInvLog) : memInvLog[k] = memFinLog[i][1]}) = 1
           /\ memory_worker.job # memFinLog[i][1]
    /\ \A v, w \in HeldByOrchestratorWorkers :
           orchestrator_workers[v].job = orchestrator_workers[w].job => v = w
    /\ \A c, d \in HeldByChannelWorkers :
           channel_workers[c[1]][c[2]].job = channel_workers[d[1]][d[2]].job => c = d

\* C13 witness: the writer function raised for job 1 and is running on job 2,
\* and a channel job was dequeued and its call has ended
C13_Witness ==
    /\ memFinLog = << <<1, "raised">> >>
    /\ memory_worker = [pc |-> "run", job |-> 2]
    /\ msgNext = 1
    /\ ChanProcessed(1)

\* the workers of channel ch that hold a dequeued job
RunningWorkers(ch) ==
    {w \in 1..Len(channel_workers[ch]) : channel_workers[ch][w].pc = "run"}

\* the number of task_done() calls made on a queue: what was put into it less
\* what it still counts as unfinished
MarkedComplete(enqueued, queue) == Len(enqueued) - queue.unfinished

\* C34: in each of the three worker loops every dequeue is followed by exactly
\* one task_done() on that queue, whether the injected function returned or
\* raised: the step that ends a call lowers the queue's unfinished count by 1
\* and no other step lowers it, the count is the number of jobs waiting in the
\* queue plus those a worker holds, the task_done() calls never outnumber the
\* dequeues, and the count is 0 exactly when every job put into the queue has
\* been processed.
C34_CompletionAccounting ==
    /\ [](/\ memory_queue.unfinished =
                 Len(memory_queue.items) + (IF memory_worker.pc = "run" THEN 1 ELSE 0)
          /\ MarkedComplete(memEnqLog, memory_queue) = Len(memFinLog)
          /\ Len(memFinLog) <= Len(memInvLog)
          /\ memory_queue.unfinished = 0 <=>
                 \A i \in 1..Len(memEnqLog) : MemProcessed(memEnqLog[i])
          /\ orchestrator_queue.unfinished =
                 Len(orchestrator_queue.items) + Cardinality(CountedWorkers)
          /\ MarkedComplete(orchEnqLog, orchestrator_queue) =
                 Len(orchDeqLog) - Cardinality(CountedWorkers)
          /\ orchestrator_queue.unfinished = 0 <=>
                 \A i \in 1..Len(orchEnqLog) : OrchProcessed(orchEnqLog[i])
          /\ \A ch \in DOMAIN message_queues :
                 /\ message_queues[ch].unfinished =
                        Len(message_queues[ch].items) + Cardinality(RunningWorkers(ch))
                 /\ MarkedComplete(enqLog[ch], message_queues[ch]) =
                        Len(deqLog[ch]) - Cardinality(RunningWorkers(ch))
                 /\ message_queues[ch].unfinished = 0 <=>
                        \A i \in 1..Len(enqLog[ch]) :
                            ChanProcessed(enqLog[ch][i].job.message.id))
    /\ [][/\ memory_worker.pc = "run" /\ memory_worker' # memory_worker =>
                 memory_queue'.unfinished = memory_queue.unfinished - 1
          /\ memory_queue'.unfinished < memory_queue.unfinished =>
                 memory_worker.pc = "run" /\ memory_worker'.pc = "get"
          /\ \A w \in DOMAIN orchestrator_workers :
                 PcOf(w) = "run" /\ Moves(w) =>
                     orchestrator_queue'.unfinished = orchestrator_queue.unfinished - 1
          /\ orchestrator_queue'.unfinished < orchestrator_queue.unfinished =>
                 \E w \in DOMAIN orchestrator_workers : PcOf(w) = "run" /\ Moves(w)
          /\ \A ch \in DOMAIN message_queues :
                 /\ \A w \in RunningWorkers(ch) :
                        channel_workers'[ch][w] # channel_workers[ch][w] =>
                            message_queues'[ch].unfinished =
                                message_queues[ch].unfinished - 1
                 /\ message_queues'[ch].unfinished < message_queues[ch].unfinished =>
                        \E w \in RunningWorkers(ch) :
                            channel_workers'[ch][w].pc = "get"]_vars

\* C34 witness: each lane has processed one job, the writer's call raised,
\* every worker waits in get() again and every unfinished count is 0
C34_Witness ==
    /\ memFinLog = <<<<1, "raised">>>>
    /\ memory_queue.unfinished = 0
    /\ orchDeqLog = <<1>>
    /\ HoldingJob = {}
    /\ orchInvLog = <<1>>
    /\ orchestrator_queue.unfinished = 0
    /\ \E ch \in DOMAIN message_queues :
           /\ Len(deqLog[ch]) = 1
           /\ RunningWorkers(ch) = {}
           /\ message_queues[ch].unfinished = 0

\* start_channel_workers has been called; from then on the event loop runs
\* the monitor after each sleep and every task that is ready, and every
\* process_func call is taken to end.
FairSpecChan ==
    /\ SpecChan
    /\ WF_vars(MonitorScan)
    /\ WF_vars(\E cp \in AllPutters : ProducerPutResume(cp[1], cp[2]))
    /\ WF_vars(\E cw \in AllChannelWorkers : ChannelWorkerGet(cw[1], cw[2]))
    /\ WF_vars(\E cw \in AllChannelWorkers, outcome \in Outcomes :
                   ChannelWorkerDone(cw[1], cw[2], outcome))

\* the i-th job put into the queue of channel ch was passed to process_func
PassedToProcessFunc(ch, i) ==
    /\ Len(deqLog[ch]) >= i
    /\ deqLog[ch][i] = enqLog[ch][i].job

\* C35: once start_channel_workers has been called, every job put into the
\* queue of any channel, before or after the monitor first saw the channel,
\* is eventually passed to process_func, given that every process_func call
\* ends; in every state the jobs put into a queue are those already passed to
\* process_func followed by those still in the queue, and for a channel the
\* monitor has not seen yet all of them are still in the queue.
C35_ChannelJobLiveness ==
    /\ \A ch \in ChannelIds : \A i \in 1..MaxMessages :
           (chan_started /\ Len(enqLog[ch]) >= i) ~> PassedToProcessFunc(ch, i)
    /\ [](\A ch \in DOMAIN message_queues :
              /\ EnqJobs(ch) = deqLog[ch] \o message_queues[ch].items
              /\ ch \notin monitored_channels =>
                     /\ deqLog[ch] = <<>>
                     /\ message_queues[ch].items = EnqJobs(ch))

\* C35 witness: both jobs of a channel were put into its queue while the
\* monitor, already running and having served another channel, had not seen
\* it yet; they wait in the queue
C35_Witness ==
    /\ chan_started
    /\ \E seen \in monitored_channels : deqLog[seen] # <<>>
    /\ \E ch \in DOMAIN message_queues \ monitored_channels :
           /\ Len(message_queues[ch].items) = 2
           /\ message_queues[ch].items = EnqJobs(ch)

\* The workers and producers of channel "a:b" and the monitor are run; nothing
\* is assumed of channel "a": its process_func calls may never end and its
\* producers may stay suspended.
FairSpecOtherChannel ==
    /\ SpecChan
    /\ WF_vars(MonitorScan)
    /\ WF_vars(\E cp \in AllPutters :
                   cp[1] = "a:b" /\ ProducerPutResume(cp[1], cp[2]))
    /\ WF_vars(\E cw \in AllChannelWorkers :
                   cw[1] = "a:b" /\ ChannelWorkerGet(cw[1], cw[2]))
    /\ WF_vars(\E cw \in AllChannelWorkers, outcome \in Outcomes :
                   cw[1] = "a:b" /\ ChannelWorkerDone(cw[1], cw[2], outcome))

\* every worker of channel ch is inside a process_func call
AllWorkersOccupied(ch) ==
    /\ channel_workers[ch] # <<>>
    /\ RunningWorkers(ch) = 1..Len(channel_workers[ch])

\* the queue of channel ch is full and a producer is suspended on it
FullWithProducer(ch) ==
    /\ ch \in DOMAIN message_queues
    /\ QueueFull(message_queues[ch])
    /\ message_queues[ch].putters # {}

\* C36: whatever happens to channel "a", whose process_func calls may never
\* end and whose queue may stay full with a producer suspended on it, a job
\* offered for channel "a:b" is put into that channel's queue unless that
\* queue itself is full, the monitor gives the channel workers, and every job
\* in its queue is eventually passed to process_func.
C36_ChannelIndependence ==
    /\ \A i \in 1..MaxMessages :
           (chan_started /\ Len(enqLog["a:b"]) >= i) ~> PassedToProcessFunc("a:b", i)
    /\ (/\ chan_started
        /\ AllWorkersOccupied("a") \/ FullWithProducer("a")
        /\ "a:b" \in DOMAIN message_queues)
           ~> (/\ "a:b" \in monitored_channels
               /\ Len(channel_workers["a:b"]) = workers_per_channel
               /\ message_queues["a:b"].items = <<>>
               /\ deqLog["a:b"] = EnqJobs("a:b"))
    /\ [][\A ch \in DOMAIN message_queues' :
              /\ ch \in DOMAIN message_queues
              /\ message_queues'[ch].putters \ message_queues[ch].putters # {}
              => /\ QueueFull(message_queues[ch])
                 /\ \A other \in DOMAIN message_queues \ {ch} :
                        message_queues'[other] = message_queues[other]]_vars

\* C36 witness: the only worker of channel "a" is inside process_func, the
\* queue of "a" is full, and a job of channel "a:b" was processed meanwhile
C36_Witness ==
    /\ AllWorkersOccupied("a")
    /\ QueueFull(message_queues["a"])
    /\ "a:b" \in monitored_channels
    /\ Len(deqLog["a:b"]) = 1
    /\ \E i \in 1..Len(deqLog["a"]) :
           /\ deqLog["a"][i].message.id < deqLog["a:b"][1].message.id
           /\ channel_workers["a"][1].job = deqLog["a"][i]
    /\ RunningWorkers("a:b") = {}
    /\ message_queues["a:b"].unfinished = 0

====
